---- MODULE Spec2Model ----
(***************************************************************************)
(* CryptEx order guard (cryptex/execution/order_manager.py): OrderManager  *)
(* and the coroutines that run OrderManager.execute on one event loop.     *)
(*                                                                         *)
(* A coroutine runs without interruption between two awaits, so every      *)
(* action below is one such uninterrupted stretch of execute: from the     *)
(* call to the first await, from the return of get_open_orders to the      *)
(* await of place_market_order (or to a return), and from the return of    *)
(* place_market_order to the return of execute.  The exchange answers are  *)
(* the environment's choice.  time.time() is the integer clock now.        *)
(*                                                                         *)
(* CryptEx market data (cryptex/data/market_data.py): MarketDataService    *)
(* and its MarketDataCache, with the calls of get_klines, get_ticker_price *)
(* and get_klines_and_ticker cut at their awaits in the same way.          *)
(***************************************************************************)
EXTENDS Integers, Sequences, FiniteSets, TLC

\* ------------------------------------------------------------- bounds
\* Largest order_cooldown_seconds a guard is constructed with.
MaxCooldown == 2
\* The clock runs from Epoch to Epoch + MaxElapsed.
MaxElapsed == 2
\* execute calls a sole caller makes in one behaviour.
MaxCalls == 3
\* execute calls concurrent callers make in one behaviour.
MaxRaceCalls == 2
\* Largest number of open orders the exchange reports.
MaxOpenOrders == 1
\* Largest cache_ttl_seconds a market data service is constructed with.
MaxTtl == 1
\* Calls made on one market data service in one behaviour.
MaxCacheOps == 3
\* Longest candle list a strategy is called with.
MaxLen == 3
\* Largest close of a candle a strategy is called with.
MaxClose == 2
\* Largest ma_period a strategy is constructed with.
MaxPeriod == 3
\* Calls made on one strategy, its construction included, in one behaviour.
MaxSignalCalls == 3
\* generate calls made on one strategy where repeated calls are compared.
MaxRepeatCalls == 3
\* run_pipeline calls in one process.
MaxCycles == 2

\* ------------------------------------------------------------- values
\* The coroutines that may call execute on the one guard.
Tasks == {1, 2}

LONG == "LONG"
SHORT == "SHORT"
HOLD == "HOLD"
Signal == {LONG, SHORT, HOLD}

BUY == "BUY"
SELL == "SELL"
Sides == {BUY, SELL}

\* Optional values: None, or a one-element sequence holding the value.
None == <<>>
Some(v) == <<v>>

\* Python dict as a function on the set of its keys.
EmptyDict == [k \in {} |-> 0]
DictGet(d, k, default) == IF k \in DOMAIN d THEN d[k] ELSE default
DictSet(d, k, v) == [x \in (DOMAIN d) \cup {k} |-> IF x = k THEN v ELSE d[x]]

\* What the guard is constructed with (cli.py passes config.symbol and
\* config.position_size; the size is counted in thousandths).
Symbol == "BTCUSDT"
PositionSizeMilli == 1

\* The wall clock at construction lies beyond every configured cooldown.
Epoch == MaxCooldown + 1
MaxTime == Epoch + MaxElapsed

\* The exchange collaborator's one error kind, with the two shapes the
\* client raises it in: without a response (timeout, transport) and with
\* the HTTP response (rejection).
BinanceClientError(msg, response) ==
    [kind |-> "BinanceClientError", message |-> msg, response |-> response]
ExchangeErrors ==
    { BinanceClientError("Request timed out", None),
      BinanceClientError("Insufficient balance", Some([status_code |-> 400])) }

\* Answers of client.get_open_orders: a list (its length is all that is
\* read) or an error.
OpenOrdersAnswers ==
    [exc : {None}, orders : 0..MaxOpenOrders]
      \cup [exc : {Some(e) : e \in ExchangeErrors}, orders : {0}]

\* Answers of client.place_market_order: the order record, with or without
\* an orderId.
OrderResponses ==
    { [orderId |-> 12345, status |-> "FILLED"], [status |-> "FILLED"] }

OrderResult(success, order_id, message, response) ==
    [success |-> success, order_id |-> order_id, message |-> message,
     response |-> response]

NoTime == -1

VARIABLES
    now,            \* time.time()
    cooldownSecs,   \* self.order_cooldown_seconds
    lastOrderTime,  \* self._last_order_time
    pc,             \* where each coroutine stands in execute
    sig,            \* the signal of each coroutine's execute call
    openResp,       \* what get_open_orders answered in this call: the kind
                    \* of the error or the number of open orders
    placeResp,      \* what place_market_order answered in this call
    prev,           \* the caller's previous execute call: its signal, whether
                    \* it called place_market_order, its result's success
    checkedAt,      \* the clock when this call evaluated _is_on_cooldown
    calls,          \* the client calls this execute call has made, in order
    result,         \* what execute returned
    ncalls,         \* execute calls made so far
    orders,         \* the submissions the exchange accepted, in order
    ttl,            \* MarketDataCache.ttl_seconds
    cacheCandles,   \* MarketDataCache.candles
    tickerPrice,    \* MarketDataCache.ticker_price
    lastUpdated,    \* MarketDataCache.last_updated
    disk,           \* what _persist_candles last wrote to the candle file
    kpc,            \* where the get_klines call stands
    kop,            \* the get_klines call: its arguments, what the cache held
                    \* when it started, the client calls it made, the answer
    kret,           \* what get_klines returned or raised
    qpc,            \* where the get_ticker_price call stands
    qop,            \* the get_ticker_price call, as kop
    qret,           \* what get_ticker_price returned or raised
    jpc,            \* where the get_klines_and_ticker call stands
    jret,           \* what get_klines_and_ticker returned or raised
    jlog,           \* the exchange calls and answers of the two tasks of
                    \* get_klines_and_ticker, in the order they happened
    lastCandleFetch,\* the last successful candle fetch: when, and what
    lastQuoteFetch, \* the last successful quote fetch: when, and what
    cacheOps,       \* calls made on the market data service so far
    strat,          \* the SimpleSignalStrategy, once constructed
    stratOut,       \* what the last SimpleSignalStrategy(...) call left behind
    scall,          \* the last call on the strategy: the method, the candles
                    \* it was given and what it returned
    sfirst,         \* the first generate call made on the strategy
    scalls,         \* calls made on the strategy so far
    ppc,            \* where run_pipeline stands
    pcfg,           \* what run_pipeline was called with: config.ma_period and
                    \* dry_run
    pret,           \* what run_pipeline returned or raised
    plog            \* the client calls run_pipeline made itself, in order

guardVars == << cooldownSecs, lastOrderTime, pc, sig, openResp, placeResp,
                prev, checkedAt, calls, result, ncalls, orders >>

cacheVars == << ttl, cacheCandles, tickerPrice, lastUpdated, disk, kpc, kop,
                kret, qpc, qop, qret, jpc, jret, jlog, lastCandleFetch,
                lastQuoteFetch, cacheOps >>

signalVars == << strat, stratOut, scall, sfirst, scalls >>

pipeVars == << ppc, pcfg, pret, plog >>

vars == << now, guardVars, cacheVars, signalVars, pipeVars >>

\* ------------------------------------------------------------- helpers

\* The side mapping with the two sides exchanged.
SideOf_Swapped(signal) == IF signal = LONG THEN SELL ELSE BUY

\* execute: side = "BUY" if signal == Signal.LONG else "SELL"
SideOf(signal) == IF signal = LONG THEN BUY ELSE SELL

\* What a call leaves behind: the value it returns, or the exception that
\* leaves it.
Returns(v) == [exc |-> None, value |-> v]
Raises(e) == [exc |-> Some(e), value |-> FALSE]

\* has_open_orders with the error branch answering "no" (return False).
HasOpenOrders_AssumeNone(answer) ==
    IF answer.exc # None THEN Returns(FALSE) ELSE Returns(answer.orders > 0)

\* has_open_orders with len(orders) > 1.
HasOpenOrders_MoreThanOne(answer) ==
    IF answer.exc # None THEN Returns(TRUE) ELSE Returns(answer.orders > 1)

\* What has_open_orders reads of an answer of client.get_open_orders.
Seen(answer) ==
    [exc |-> IF answer.exc = None THEN None ELSE Some(answer.exc[1].kind),
     orders |-> answer.orders]

\* has_open_orders, as a fold of the answer of client.get_open_orders.
HasOpenOrders(answer) ==
    IF answer.exc # None
      THEN IF answer.exc[1].kind = "BinanceClientError"
             THEN Returns(TRUE)
             ELSE Raises(answer.exc[1])
      ELSE Returns(answer.orders > 0)

\* _is_on_cooldown with the window one second short.
IsOnCooldown_OffByOne(side) ==
    (now - DictGet(lastOrderTime, side, 0)) < cooldownSecs - 1

\* _is_on_cooldown reading one clock for both sides.
IsOnCooldown_AnySide(side) ==
    \E s \in Sides : (now - DictGet(lastOrderTime, s, 0)) < cooldownSecs

\* _is_on_cooldown with the window closed at its end (<=).
IsOnCooldown_Inclusive(side) ==
    (now - DictGet(lastOrderTime, side, 0)) <= cooldownSecs

\* _is_on_cooldown
IsOnCooldown(side) ==
    (now - DictGet(lastOrderTime, side, 0)) < cooldownSecs

\* _record_order stamping every side.
RecordOrder_AllSides(side) == [s \in Sides |-> now]

\* _record_order: the new value of _last_order_time
RecordOrder(side) == DictSet(lastOrderTime, side, now)

\* execute without the except clause.
ExecuteCatches_Nothing(e) == FALSE

\* The except clause around place_market_order in execute.
ExecuteCatches(e) == e.kind = "BinanceClientError"

GetOpenOrdersCall == [method |-> "get_open_orders", symbol |-> Symbol]

\* The arguments execute passes to client.place_market_order.
PlaceMarketOrderCall(signal) ==
    [method |-> "place_market_order", symbol |-> Symbol,
     side |-> SideOf(signal), quantity |-> PositionSizeMilli]

HoldResult == OrderResult(TRUE, None, <<"HOLD - no order placed">>, None)

OpenOrdersSkipResult(side) ==
    OrderResult(FALSE, None,
                <<"Skipping", side, "open orders exist for", Symbol>>, None)

CooldownSkipResult(side) ==
    OrderResult(FALSE, None,
                <<"Skipping", side, "cooldown active", ToString(cooldownSecs)>>,
                None)

\* str(result.get("orderId", ""))
OrderIdOf(response) ==
    IF "orderId" \in DOMAIN response THEN ToString(response.orderId) ELSE ""

PlacedResult(response) ==
    OrderResult(TRUE, Some(OrderIdOf(response)),
                <<"Order placed", OrderIdOf(response)>>, Some(response))

RejectedResult(e) == OrderResult(FALSE, None, <<e.message>>, e.response)

NoResult == None

\* ------------------------------------------------------------- market data
\* MarketDataService (cryptex/data/market_data.py) and its MarketDataCache.
\* One get_klines call and one get_ticker_price call can be in flight at a
\* time, started alone or as the two tasks of get_klines_and_ticker.  Floats
\* are counted in hundredths.

Timeframe == "5m"
KlinesLimit == 100

\* float(text) for the texts the exchange sends here, in hundredths.
FloatOf(text) ==
    CASE text = "0.00" -> 0
      [] text = "1.00" -> 100
      [] text = "1.50" -> 150
      [] text = "2.00" -> 200

\* Raw klines: [open_time, open, high, low, close, volume, ...].
RawKline1 == << 1, "1.00", "2.00", "1.00", "1.50", "1.00" >>
RawKline2 == << 2, "1.50", "2.00", "1.00", "2.00", "2.00", "extra" >>

\* The error the public endpoints are seen to fail with here.
FetchErrors == { BinanceClientError("Request timed out", None) }

\* Answers of client.get_klines: a list of raw klines, or an error.
KlinesAnswers ==
    { Returns(raw) : raw \in { <<>>, <<RawKline1>>, <<RawKline1, RawKline2>> } }
      \cup { Raises(e) : e \in FetchErrors }

\* Answers of client.get_ticker_price: {"price": text}, or an error.
TickerAnswers ==
    { Returns([price |-> text]) : text \in {"0.00", "1.00", "2.00"} }
      \cup { Raises(e) : e \in FetchErrors }

\* Outcomes of open(filepath, "w") and json.dump in _write.
PersistOutcomes == {"written", "OSError"}

\* Candle.from_binance
FromBinance(raw) ==
    [open_time |-> raw[1], open |-> FloatOf(raw[2]), high |-> FloatOf(raw[3]),
     low |-> FloatOf(raw[4]), close |-> FloatOf(raw[5]),
     volume |-> FloatOf(raw[6])]

\* [Candle.from_binance(k) for k in raw]
CandlesOf(raw) == [i \in 1..Len(raw) |-> FromBinance(raw[i])]

\* float(data["price"])
PriceOf(data) == FloatOf(data.price)

\* is_stale answering "stale" whatever the clock says.
IsStale_Always == TRUE

\* MarketDataCache.is_stale
IsStale == now - lastUpdated > ttl

\* get_klines without the emptiness test.
HasCandles_Any(candles) == TRUE

\* bool(self._cache.candles)
HasCandles(candles) == Len(candles) > 0

\* "ticker_price is not None" in place of the truth value.
HasPrice_NotNone(price) == price # None

\* bool(self._cache.ticker_price): None and 0.0 are false.
HasPrice(price) == price # None /\ price[1] # 0

\* update_candles extending the cached list instead of replacing it.
UpdateCandles_Extends(candles) ==
    [candles |-> cacheCandles \o candles, last_updated |-> now]

\* MarketDataCache.update_candles: the new candles and last_updated.
UpdateCandles(candles) == [candles |-> candles, last_updated |-> now]

\* MarketDataCache.update_ticker: the new ticker_price and last_updated.
UpdateTicker(price) == [ticker_price |-> Some(price), last_updated |-> now]

\* The cache condition of get_klines without force_refresh.
KlinesCached_IgnoresForce(force) == ~IsStale /\ HasCandles(cacheCandles)

\* get_klines: whether the cached candles are returned.
KlinesCached(force) == ~force /\ ~IsStale /\ HasCandles(cacheCandles)

\* get_ticker_price: whether the cached price is returned.
TickerCached(force) == ~force /\ ~IsStale /\ HasPrice(tickerPrice)

GetKlinesCall ==
    [method |-> "get_klines", symbol |-> Symbol, interval |-> Timeframe,
     limit |-> KlinesLimit]

GetTickerPriceCall == [method |-> "get_ticker_price", symbol |-> Symbol]

\* The record of a call on the service: its argument, whether it runs as a
\* task of get_klines_and_ticker, the client calls it has made and the answer
\* it got.
CallFrame(force, joint, clientCalls) ==
    [force |-> force, joint |-> joint, calls |-> clientCalls, answer |-> None]

NoFrame == CallFrame(FALSE, FALSE, <<>>)

\* A service as MarketDataService.__init__ leaves it.
CacheNew(seconds) ==
    /\ ttl = seconds
    /\ cacheCandles = <<>>
    /\ tickerPrice = None
    /\ lastUpdated = 0
    /\ disk = None
    /\ kpc = "idle"
    /\ kop = NoFrame
    /\ kret = None
    /\ qpc = "idle"
    /\ qop = NoFrame
    /\ qret = None
    /\ jpc = "idle"
    /\ jret = None
    /\ jlog = <<>>
    /\ lastCandleFetch = None
    /\ lastQuoteFetch = None
    /\ cacheOps = 0

\* ------------------------------------------------------------- strategy
\* SimpleSignalStrategy (cryptex/strategy/simple_signal.py).  A float that is
\* a quotient of integers is kept as the pair of the two.

\* A candle that closed at close.
CandleAt(close) ==
    [open_time |-> 0, open |-> close, high |-> close, low |-> close,
     close |-> close, volume |-> 0]

\* The candle lists a strategy is called with here.
CandleLists ==
    UNION { [1..n -> { CandleAt(close) : close \in 0..MaxClose }] :
              n \in 0..MaxLen }

\* The candle lists repeated calls are compared on: the closes lie at the two
\* ends of the range.
RepeatLists ==
    UNION { [1..n -> { CandleAt(0), CandleAt(MaxClose) }] : n \in 0..MaxLen }

ValueError(msg) == [kind |-> "ValueError", message |-> msg, response |-> None]

\* SimpleSignalStrategy.__init__ accepting every period from 1 on.
NewStrategy_AcceptsOne(ma_period) ==
    IF ma_period < 1
      THEN Raises(ValueError("ma_period must be at least 2"))
      ELSE Returns([ma_period |-> ma_period])

\* SimpleSignalStrategy.__init__: the strategy, or the ValueError.
NewStrategy(ma_period) ==
    IF ma_period < 2
      THEN Raises(ValueError("ma_period must be at least 2"))
      ELSE Returns([ma_period |-> ma_period])

\* sum(xs)
RECURSIVE Sum(_)
Sum(xs) == IF xs = <<>> THEN 0 ELSE xs[1] + Sum(Tail(xs))

\* xs[-n:] for n > 0
LastN(xs, n) ==
    IF n >= Len(xs) THEN xs ELSE SubSeq(xs, Len(xs) - n + 1, Len(xs))

\* [c.close for c in candles]
Closes(candles) == [i \in 1..Len(candles) |-> candles[i].close]

\* sum(closes) / len(closes)
Quotient(num, den) == [num |-> num, den |-> den]

\* compute_ma averaging every candle it is given.
ComputeMa_AllCandles(self, candles) ==
    IF Len(candles) < self.ma_period
      THEN None
      ELSE Some(Quotient(Sum(Closes(candles)), Len(candles)))

\* SimpleSignalStrategy.compute_ma
ComputeMa(self, candles) ==
    IF Len(candles) < self.ma_period
      THEN None
      ELSE LET closes == Closes(LastN(candles, self.ma_period))
           IN  Some(Quotient(Sum(closes), Len(closes)))

\* x > q and x < q for a number x and a quotient q with a positive divisor.
Above(x, q) == x * q.den > q.num
Below(x, q) == x * q.den < q.num

\* generate answering LONG also when the last close equals the average.
Generate_LongOnEqual(self, candles) ==
    IF candles = <<>> THEN HOLD
    ELSE LET ma == ComputeMa(self, candles)
             last_close == candles[Len(candles)].close
         IN  IF ma = None THEN HOLD
             ELSE IF ~Below(last_close, ma[1]) THEN LONG
             ELSE SHORT

\* generate reading the clock: no signal in odd seconds.
Generate_ClockDependent(self, candles) ==
    IF candles = <<>> \/ now % 2 = 1 THEN HOLD
    ELSE LET ma == ComputeMa(self, candles)
             last_close == candles[Len(candles)].close
         IN  IF ma = None THEN HOLD
             ELSE IF Above(last_close, ma[1]) THEN LONG
             ELSE IF Below(last_close, ma[1]) THEN SHORT
             ELSE HOLD

\* SimpleSignalStrategy.generate
Generate(self, candles) ==
    IF candles = <<>> THEN HOLD
    ELSE LET ma == ComputeMa(self, candles)
             last_close == candles[Len(candles)].close
         IN  IF ma = None THEN HOLD
             ELSE IF Above(last_close, ma[1]) THEN LONG
             ELSE IF Below(last_close, ma[1]) THEN SHORT
             ELSE HOLD

\* No strategy has been constructed.
SignalNew ==
    /\ strat = None
    /\ stratOut = None
    /\ scall = None
    /\ sfirst = None
    /\ scalls = 0

\* run_pipeline has not been called.
PipeNew ==
    /\ ppc = "idle"
    /\ pcfg = None
    /\ pret = None
    /\ plog = <<>>

\* ------------------------------------------------------------- init

\* A guard as OrderManager.__init__ leaves it, before any execute call.
GuardNew ==
    /\ lastOrderTime = EmptyDict
    /\ pc = [t \in Tasks |-> "idle"]
    /\ sig = [t \in Tasks |-> HOLD]
    /\ openResp = [t \in Tasks |-> None]
    /\ placeResp = [t \in Tasks |-> None]
    /\ prev = [t \in Tasks |-> None]
    /\ checkedAt = [t \in Tasks |-> NoTime]
    /\ calls = [t \in Tasks |-> <<>>]
    /\ result = [t \in Tasks |-> NoResult]
    /\ ncalls = 0
    /\ orders = <<>>

Init ==
    /\ now = Epoch
    /\ cooldownSecs \in 0..MaxCooldown
    /\ GuardNew
    /\ CacheNew(0)
    /\ SignalNew
    /\ PipeNew

\* ------------------------------------------------------------- actions

\* time.time() moves on.
Tick ==
    /\ now < MaxTime
    /\ now' = now + 1
    /\ UNCHANGED << cooldownSecs, lastOrderTime, pc, sig, openResp, placeResp,
                    prev, checkedAt, calls, result, ncalls, orders >>
    /\ UNCHANGED << cacheVars, signalVars, pipeVars >>

CanCall(t, max) == pc[t] \in {"idle", "done", "raised"} /\ ncalls < max

\* A new execute call starts from a clean frame.
Enter(t, signal) ==
    /\ ncalls' = ncalls + 1
    /\ sig' = [sig EXCEPT ![t] = signal]
    /\ openResp' = [openResp EXCEPT ![t] = None]
    /\ placeResp' = [placeResp EXCEPT ![t] = None]
    /\ checkedAt' = [checkedAt EXCEPT ![t] = NoTime]
    /\ prev' = [prev EXCEPT ![t] =
                  IF pc[t] = "idle" THEN None
                  ELSE Some([sig |-> sig[t],
                             submitted |-> \E k \in 1..Len(calls[t]) :
                                 calls[t][k].method = "place_market_order",
                             success |-> result[t] # None /\ result[t][1].success])]

\* execute(HOLD): returns at once.
ExecuteHold(t, max) ==
    /\ CanCall(t, max)
    /\ Enter(t, HOLD)
    /\ calls' = [calls EXCEPT ![t] = <<>>]
    /\ result' = [result EXCEPT ![t] = Some(HoldResult)]
    /\ pc' = [pc EXCEPT ![t] = "done"]
    /\ UNCHANGED << now, cooldownSecs, lastOrderTime, orders >>
    /\ UNCHANGED << cacheVars, signalVars, pipeVars >>

\* execute(LONG | SHORT) up to the await of client.get_open_orders.
ExecuteTrade(t, signal, max) ==
    /\ CanCall(t, max)
    /\ Enter(t, signal)
    /\ calls' = [calls EXCEPT ![t] = <<GetOpenOrdersCall>>]
    /\ result' = [result EXCEPT ![t] = NoResult]
    /\ pc' = [pc EXCEPT ![t] = "open_orders"]
    /\ UNCHANGED << now, cooldownSecs, lastOrderTime, orders >>
    /\ UNCHANGED << cacheVars, signalVars, pipeVars >>

\* execute without the HOLD shortcut.
Execute_NoHoldShortcut(t, signal, max) == ExecuteTrade(t, signal, max)

Execute(t, signal, max) ==
    IF signal = HOLD THEN ExecuteHold(t, max) ELSE ExecuteTrade(t, signal, max)

\* get_open_orders answered and has_open_orders returned true (or raised):
\* execute ends here.
OpenOrdersSkip(t, answer) ==
    /\ pc[t] = "open_orders"
    /\ HasOpenOrders(answer).exc # None \/ HasOpenOrders(answer).value
    /\ openResp' = [openResp EXCEPT ![t] = Some(Seen(answer))]
    /\ IF HasOpenOrders(answer).exc # None
         THEN /\ result' = result
              /\ pc' = [pc EXCEPT ![t] = "raised"]
         ELSE /\ result' = [result EXCEPT
                              ![t] = Some(OpenOrdersSkipResult(SideOf(sig[t])))]
              /\ pc' = [pc EXCEPT ![t] = "done"]
    /\ UNCHANGED << now, cooldownSecs, lastOrderTime, sig, placeResp, prev,
                    checkedAt, calls, ncalls, orders >>
    /\ UNCHANGED << cacheVars, signalVars, pipeVars >>

\* The cooldown checked before the answer about open orders is looked at.
CooldownSkip_BeforeOpenOrders(t, answer) ==
    /\ pc[t] = "open_orders"
    /\ IsOnCooldown(SideOf(sig[t]))
    /\ openResp' = [openResp EXCEPT ![t] = Some(Seen(answer))]
    /\ checkedAt' = [checkedAt EXCEPT ![t] = now]
    /\ result' = [result EXCEPT ![t] = Some(CooldownSkipResult(SideOf(sig[t])))]
    /\ pc' = [pc EXCEPT ![t] = "done"]
    /\ UNCHANGED << now, cooldownSecs, lastOrderTime, sig, placeResp, prev,
                    calls, ncalls, orders >>
    /\ UNCHANGED << cacheVars, signalVars, pipeVars >>

\* get_open_orders answered, has_open_orders returned false, the side is on
\* cooldown.
CooldownSkip(t, answer) ==
    /\ pc[t] = "open_orders"
    /\ HasOpenOrders(answer) = Returns(FALSE)
    /\ IsOnCooldown(SideOf(sig[t]))
    /\ openResp' = [openResp EXCEPT ![t] = Some(Seen(answer))]
    /\ checkedAt' = [checkedAt EXCEPT ![t] = now]
    /\ result' = [result EXCEPT ![t] = Some(CooldownSkipResult(SideOf(sig[t])))]
    /\ pc' = [pc EXCEPT ![t] = "done"]
    /\ UNCHANGED << now, cooldownSecs, lastOrderTime, sig, placeResp, prev,
                    calls, ncalls, orders >>
    /\ UNCHANGED << cacheVars, signalVars, pipeVars >>

\* get_open_orders answered, both gates passed: place_market_order is called
\* and awaited.
Submit(t, answer) ==
    /\ pc[t] = "open_orders"
    /\ HasOpenOrders(answer) = Returns(FALSE)
    /\ ~IsOnCooldown(SideOf(sig[t]))
    /\ openResp' = [openResp EXCEPT ![t] = Some(Seen(answer))]
    /\ checkedAt' = [checkedAt EXCEPT ![t] = now]
    /\ calls' = [calls EXCEPT ![t] = Append(@, PlaceMarketOrderCall(sig[t]))]
    /\ pc' = [pc EXCEPT ![t] = "place"]
    /\ UNCHANGED << now, cooldownSecs, lastOrderTime, sig, placeResp, prev,
                    result, ncalls, orders >>
    /\ UNCHANGED << cacheVars, signalVars, pipeVars >>

\* place_market_order returned the order record.
PlaceReturn(t, response) ==
    /\ pc[t] = "place"
    /\ lastOrderTime' = RecordOrder(SideOf(sig[t]))
    /\ orders' = Append(orders, [task |-> t,
                                 side |-> calls[t][Len(calls[t])].side,
                                 issuedAt |-> checkedAt[t], doneAt |-> now])
    /\ placeResp' = [placeResp EXCEPT ![t] = Some(Returns(response))]
    /\ result' = [result EXCEPT ![t] = Some(PlacedResult(response))]
    /\ pc' = [pc EXCEPT ![t] = "done"]
    /\ UNCHANGED << now, cooldownSecs, sig, openResp, prev, checkedAt, calls,
                    ncalls >>
    /\ UNCHANGED << cacheVars, signalVars, pipeVars >>

\* The except branch stamping the cooldown clock as well.
PlaceRaise_RecordsAttempt(t, e) ==
    /\ pc[t] = "place"
    /\ placeResp' = [placeResp EXCEPT ![t] = Some(Raises(e))]
    /\ lastOrderTime' = RecordOrder(SideOf(sig[t]))
    /\ result' = [result EXCEPT ![t] = Some(RejectedResult(e))]
    /\ pc' = [pc EXCEPT ![t] = "done"]
    /\ UNCHANGED << now, cooldownSecs, sig, openResp, prev, checkedAt, calls,
                    ncalls, orders >>
    /\ UNCHANGED << cacheVars, signalVars, pipeVars >>

\* A rejected submission tried once more before execute gives up.
PlaceRaise_RetriesOnce(t, e) ==
    /\ pc[t] = "place"
    /\ placeResp' = [placeResp EXCEPT ![t] = Some(Raises(e))]
    /\ IF Len(calls[t]) < 3
         THEN /\ calls' = [calls EXCEPT
                             ![t] = Append(@, PlaceMarketOrderCall(sig[t]))]
              /\ result' = result
              /\ pc' = pc
         ELSE /\ calls' = calls
              /\ result' = [result EXCEPT ![t] = Some(RejectedResult(e))]
              /\ pc' = [pc EXCEPT ![t] = "done"]
    /\ UNCHANGED << now, cooldownSecs, lastOrderTime, sig, openResp, prev,
                    checkedAt, ncalls, orders >>
    /\ UNCHANGED << cacheVars, signalVars, pipeVars >>

\* place_market_order raised.
PlaceRaise(t, e) ==
    /\ pc[t] = "place"
    /\ placeResp' = [placeResp EXCEPT ![t] = Some(Raises(e))]
    /\ IF ExecuteCatches(e)
         THEN /\ result' = [result EXCEPT ![t] = Some(RejectedResult(e))]
              /\ pc' = [pc EXCEPT ![t] = "done"]
         ELSE /\ result' = result
              /\ pc' = [pc EXCEPT ![t] = "raised"]
    /\ UNCHANGED << now, cooldownSecs, lastOrderTime, sig, openResp, prev,
                    checkedAt, calls, ncalls, orders >>
    /\ UNCHANGED << cacheVars, signalVars, pipeVars >>

TaskStep(t, max) ==
    \/ \E signal \in Signal : Execute(t, signal, max)
    \/ \E answer \in OpenOrdersAnswers :
          \/ OpenOrdersSkip(t, answer)
          \/ CooldownSkip(t, answer)
          \/ Submit(t, answer)
    \/ \E response \in OrderResponses : PlaceReturn(t, response)
    \/ \E e \in ExchangeErrors : PlaceRaise(t, e)

\* Any number of coroutines run execute on the one guard.
Next == Tick \/ \E t \in Tasks : TaskStep(t, MaxRaceCalls)

Spec == Init /\ [][Next]_vars

\* One caller: every execute call returns before the next one starts.
NextSeq == Tick \/ TaskStep(1, MaxCalls)

SpecSeq == Init /\ [][NextSeq]_vars

\* The exchange call that the execute call of t awaits returns or fails, and
\* execute runs on to its next await or to its return.
Answered(t) ==
    \/ \E answer \in OpenOrdersAnswers :
          \/ OpenOrdersSkip(t, answer)
          \/ CooldownSkip(t, answer)
          \/ Submit(t, answer)
    \/ \E response \in OrderResponses : PlaceReturn(t, response)
    \/ \E e \in ExchangeErrors : PlaceRaise(t, e)

\* One caller, with every awaited exchange call eventually answered and the
\* event loop resuming the coroutine that awaits it.
SpecSeqFair == Init /\ [][NextSeq]_vars /\ WF_vars(Answered(1))

\* ------------------------------------------------------------- early clock
\* time.time() counts from 0: a guard can be constructed while the clock
\* reads less than its cooldown (a clock that was never set, or a cooldown
\* longer than the time since 1970; __init__ accepts any number).
InitEarly ==
    /\ now \in 0..Epoch
    /\ cooldownSecs \in 0..MaxCooldown
    /\ GuardNew
    /\ CacheNew(0)
    /\ SignalNew
    /\ PipeNew

\* One caller on a guard constructed at any clock value.
SpecEarly == InitEarly /\ [][NextSeq]_vars

\* ------------------------------------------------------------- market data
\* actions

\* The clock when the service is constructed: a cache that was never written
\* (last_updated = 0) is within the largest ttl then, and beyond it after.
CacheEpoch == MaxTtl
CacheMaxTime == CacheEpoch + MaxElapsed

InitCache ==
    /\ now = CacheEpoch
    /\ cooldownSecs = 0
    /\ GuardNew
    /\ \E seconds \in 0..MaxTtl : CacheNew(seconds)
    /\ SignalNew
    /\ PipeNew

Finished(p) == p \in {"idle", "done", "raised"}

\* The caller makes its next call when its last call has left; a task of a
\* get_klines_and_ticker call that raised may still be running then.
CanStart ==
    /\ cacheOps < MaxCacheOps
    /\ jpc # "waiting"
    /\ Finished(kpc) \/ kop.joint
    /\ Finished(qpc) \/ qop.joint

\* time.time() moves on while the service is in use.
CacheTick ==
    /\ now < CacheMaxTime
    /\ now' = now + 1
    /\ UNCHANGED << guardVars, cacheVars, signalVars, pipeVars >>

\* get_klines writing the file again on a cache hit.
KlinesEnter_PersistsOnHit(force, joint) ==
    IF KlinesCached(force)
      THEN /\ kop' = [CallFrame(force, joint, <<>>)
                        EXCEPT !.answer = Some(Returns(<<RawKline1>>))]
           /\ kret' = None
           /\ kpc' = "persist"
      ELSE /\ kop' = CallFrame(force, joint, <<GetKlinesCall>>)
           /\ kret' = None
           /\ kpc' = "fetch"

\* get_klines up to its return of the cached candles or to the await of
\* client.get_klines.
KlinesEnter(force, joint) ==
    IF KlinesCached(force)
      THEN /\ kop' = CallFrame(force, joint, <<>>)
           /\ kret' = Some(Returns(cacheCandles))
           /\ kpc' = "done"
      ELSE /\ kop' = CallFrame(force, joint, <<GetKlinesCall>>)
           /\ kret' = None
           /\ kpc' = "fetch"

\* get_ticker_price up to its return of the cached price or to the await of
\* client.get_ticker_price.
TickerEnter(force, joint) ==
    IF TickerCached(force)
      THEN /\ qop' = CallFrame(force, joint, <<>>)
           /\ qret' = Some(Returns(tickerPrice[1]))
           /\ qpc' = "done"
      ELSE /\ qop' = CallFrame(force, joint, <<GetTickerPriceCall>>)
           /\ qret' = None
           /\ qpc' = "fetch"

\* gather(..., return_exceptions=True): the call returns when both tasks have
\* ended, with whatever each of them left.
Join_ReturnsExceptions(kp, kr, qp, qr) ==
    IF kp \in {"done", "raised"} /\ qp \in {"done", "raised"}
      THEN [pc |-> "done", ret |-> Some(Returns(<< kr[1].value, qr[1].value >>))]
      ELSE [pc |-> "waiting", ret |-> None]

\* asyncio.gather over the two tasks: the first exception leaves the call at
\* once, the pair is returned when both tasks have returned.
Join(kp, kr, qp, qr) ==
    IF kp = "raised" THEN [pc |-> "raised", ret |-> Some(Raises(kr[1].exc[1]))]
    ELSE IF qp = "raised"
      THEN [pc |-> "raised", ret |-> Some(Raises(qr[1].exc[1]))]
    ELSE IF kp = "done" /\ qp = "done"
      THEN [pc |-> "done", ret |-> Some(Returns(<< kr[1].value, qr[1].value >>))]
    ELSE [pc |-> "waiting", ret |-> None]

\* The caller of get_klines_and_ticker resumes when gather has its outcome.
Resume(joint, kp, kr, qp, qr) ==
    IF joint /\ jpc = "waiting"
      THEN /\ jpc' = Join(kp, kr, qp, qr).pc
           /\ jret' = Join(kp, kr, qp, qr).ret
      ELSE UNCHANGED << jpc, jret >>

Logged(joint, event) == jlog' = IF joint THEN Append(jlog, event) ELSE jlog

\* The caller has moved on from its earlier calls: what they returned is
\* dropped; a task that is still running keeps its frame.
ForgetKlines ==
    IF Finished(kpc)
      THEN kpc' = "idle" /\ kop' = NoFrame /\ kret' = None
      ELSE UNCHANGED << kpc, kop, kret >>

ForgetTicker ==
    IF Finished(qpc)
      THEN qpc' = "idle" /\ qop' = NoFrame /\ qret' = None
      ELSE UNCHANGED << qpc, qop, qret >>

ForgetJoint == jpc' = "idle" /\ jret' = None /\ jlog' = <<>>

\* A call of get_klines on its own.
GetKlines(force) ==
    /\ CanStart
    /\ Finished(kpc)
    /\ KlinesEnter(force, FALSE)
    /\ ForgetTicker
    /\ ForgetJoint
    /\ cacheOps' = cacheOps + 1
    /\ UNCHANGED << ttl, cacheCandles, tickerPrice, lastUpdated, disk,
                    lastCandleFetch, lastQuoteFetch >>
    /\ UNCHANGED << now, guardVars, signalVars, pipeVars >>

\* A call of get_ticker_price on its own.
GetTickerPrice(force) ==
    /\ CanStart
    /\ Finished(qpc)
    /\ TickerEnter(force, FALSE)
    /\ ForgetKlines
    /\ ForgetJoint
    /\ cacheOps' = cacheOps + 1
    /\ UNCHANGED << ttl, cacheCandles, tickerPrice, lastUpdated, disk,
                    lastCandleFetch, lastQuoteFetch >>
    /\ UNCHANGED << now, guardVars, signalVars, pipeVars >>

\* get_klines_and_ticker passing force_refresh to get_klines only.
GetKlinesAndTicker_ForceKlinesOnly(force) ==
    /\ CanStart
    /\ Finished(kpc) /\ Finished(qpc)
    /\ KlinesEnter(force, TRUE)
    /\ TickerEnter(FALSE, TRUE)
    /\ jlog' = (IF KlinesCached(force) THEN <<>> ELSE <<"call get_klines">>)
                 \o (IF TickerCached(FALSE) THEN <<>>
                     ELSE <<"call get_ticker_price">>)
    /\ jpc' = Join(kpc', kret', qpc', qret').pc
    /\ jret' = Join(kpc', kret', qpc', qret').ret
    /\ cacheOps' = cacheOps + 1
    /\ UNCHANGED << ttl, cacheCandles, tickerPrice, lastUpdated, disk,
                    lastCandleFetch, lastQuoteFetch >>
    /\ UNCHANGED << now, guardVars, signalVars, pipeVars >>

\* get_klines_and_ticker: both tasks are created, the caller awaits gather,
\* and the event loop runs the klines task and then the ticker task, each to
\* its first await, before it polls for any answer.
GetKlinesAndTicker(force) ==
    /\ CanStart
    /\ Finished(kpc) /\ Finished(qpc)
    /\ KlinesEnter(force, TRUE)
    /\ TickerEnter(force, TRUE)
    /\ jlog' = (IF KlinesCached(force) THEN <<>> ELSE <<"call get_klines">>)
                 \o (IF TickerCached(force) THEN <<>>
                     ELSE <<"call get_ticker_price">>)
    /\ jpc' = Join(kpc', kret', qpc', qret').pc
    /\ jret' = Join(kpc', kret', qpc', qret').ret
    /\ cacheOps' = cacheOps + 1
    /\ UNCHANGED << ttl, cacheCandles, tickerPrice, lastUpdated, disk,
                    lastCandleFetch, lastQuoteFetch >>
    /\ UNCHANGED << now, guardVars, signalVars, pipeVars >>

\* client.get_klines returned: the candles are parsed and cached, and
\* get_klines awaits _persist_candles.
KlinesReturn(answer) ==
    /\ kpc = "fetch"
    /\ answer.exc = None
    /\ cacheCandles' = UpdateCandles(CandlesOf(answer.value)).candles
    /\ lastUpdated' = UpdateCandles(CandlesOf(answer.value)).last_updated
    /\ lastCandleFetch' = Some([at |-> now, value |-> CandlesOf(answer.value)])
    /\ kop' = [kop EXCEPT !.answer = Some(answer)]
    /\ kpc' = "persist"
    /\ Logged(kop.joint, "answer get_klines")
    /\ UNCHANGED << ttl, tickerPrice, disk, kret, qpc, qop, qret, jpc, jret,
                    lastQuoteFetch, cacheOps >>
    /\ UNCHANGED << now, guardVars, signalVars, pipeVars >>

\* get_klines falling back to the cached candles when the fetch fails.
KlinesRaise_FallsBack(answer) ==
    /\ kpc = "fetch"
    /\ answer.exc # None
    /\ kop' = [kop EXCEPT !.answer = Some(answer)]
    /\ kret' = Some(Returns(cacheCandles))
    /\ kpc' = "done"
    /\ Logged(kop.joint, "answer get_klines")
    /\ Resume(kop.joint, kpc', kret', qpc, qret)
    /\ UNCHANGED << ttl, cacheCandles, tickerPrice, lastUpdated, disk, qpc,
                    qop, qret, lastCandleFetch, lastQuoteFetch, cacheOps >>
    /\ UNCHANGED << now, guardVars, signalVars, pipeVars >>

\* client.get_klines raised: the exception leaves get_klines.
KlinesRaise(answer) ==
    /\ kpc = "fetch"
    /\ answer.exc # None
    /\ kop' = [kop EXCEPT !.answer = Some(answer)]
    /\ kret' = Some(Raises(answer.exc[1]))
    /\ kpc' = "raised"
    /\ Logged(kop.joint, "answer get_klines")
    /\ Resume(kop.joint, kpc', kret', qpc, qret)
    /\ UNCHANGED << ttl, cacheCandles, tickerPrice, lastUpdated, disk, qpc,
                    qop, qret, lastCandleFetch, lastQuoteFetch, cacheOps >>
    /\ UNCHANGED << now, guardVars, signalVars, pipeVars >>

\* _persist_candles letting the OSError of _write through.
PersistDone_Propagates(outcome) ==
    /\ kpc = "persist"
    /\ disk' = IF outcome = "written"
                 THEN Some(CandlesOf(kop.answer[1].value))
                 ELSE disk
    /\ kret' = IF outcome = "written"
                 THEN Some(Returns(CandlesOf(kop.answer[1].value)))
                 ELSE Some(Raises([kind |-> "OSError", message |-> "",
                                   response |-> None]))
    /\ kpc' = IF outcome = "written" THEN "done" ELSE "raised"
    /\ Resume(kop.joint, kpc', kret', qpc, qret)
    /\ UNCHANGED << ttl, cacheCandles, tickerPrice, lastUpdated, kop, qpc,
                    qop, qret, jlog, lastCandleFetch, lastQuoteFetch,
                    cacheOps >>
    /\ UNCHANGED << now, guardVars, signalVars, pipeVars >>

\* _write ran in its thread (an OSError is logged and swallowed there):
\* get_klines returns the candles it parsed.
PersistDone(outcome) ==
    /\ kpc = "persist"
    /\ disk' = IF outcome = "written"
                 THEN Some(CandlesOf(kop.answer[1].value))
                 ELSE disk
    /\ kret' = Some(Returns(CandlesOf(kop.answer[1].value)))
    /\ kpc' = "done"
    /\ Resume(kop.joint, kpc', kret', qpc, qret)
    /\ UNCHANGED << ttl, cacheCandles, tickerPrice, lastUpdated, kop, qpc,
                    qop, qret, jlog, lastCandleFetch, lastQuoteFetch,
                    cacheOps >>
    /\ UNCHANGED << now, guardVars, signalVars, pipeVars >>

\* client.get_ticker_price returned: the price is parsed, cached and
\* returned.
TickerReturn(answer) ==
    /\ qpc = "fetch"
    /\ answer.exc = None
    /\ tickerPrice' = UpdateTicker(PriceOf(answer.value)).ticker_price
    /\ lastUpdated' = UpdateTicker(PriceOf(answer.value)).last_updated
    /\ lastQuoteFetch' = Some([at |-> now, value |-> PriceOf(answer.value)])
    /\ qop' = [qop EXCEPT !.answer = Some(answer)]
    /\ qret' = Some(Returns(PriceOf(answer.value)))
    /\ qpc' = "done"
    /\ Logged(qop.joint, "answer get_ticker_price")
    /\ Resume(qop.joint, kpc, kret, qpc', qret')
    /\ UNCHANGED << ttl, cacheCandles, disk, kpc, kop, kret, lastCandleFetch,
                    cacheOps >>
    /\ UNCHANGED << now, guardVars, signalVars, pipeVars >>

\* client.get_ticker_price raised: the exception leaves get_ticker_price.
TickerRaise(answer) ==
    /\ qpc = "fetch"
    /\ answer.exc # None
    /\ qop' = [qop EXCEPT !.answer = Some(answer)]
    /\ qret' = Some(Raises(answer.exc[1]))
    /\ qpc' = "raised"
    /\ Logged(qop.joint, "answer get_ticker_price")
    /\ Resume(qop.joint, kpc, kret, qpc', qret')
    /\ UNCHANGED << ttl, cacheCandles, tickerPrice, lastUpdated, disk, kpc,
                    kop, kret, lastCandleFetch, lastQuoteFetch, cacheOps >>
    /\ UNCHANGED << now, guardVars, signalVars, pipeVars >>

NextCache ==
    \/ CacheTick
    \/ \E force \in BOOLEAN : GetKlines(force)
    \/ \E force \in BOOLEAN : GetTickerPrice(force)
    \/ \E force \in BOOLEAN : GetKlinesAndTicker(force)
    \/ \E answer \in KlinesAnswers : KlinesReturn(answer)
    \/ \E answer \in KlinesAnswers : KlinesRaise(answer)
    \/ \E outcome \in PersistOutcomes : PersistDone(outcome)
    \/ \E answer \in TickerAnswers : TickerReturn(answer)
    \/ \E answer \in TickerAnswers : TickerRaise(answer)

\* Callers of one market data service on one event loop.
SpecCache == InitCache /\ [][NextCache]_vars

\* ------------------------------------------------------------- strategy
\* actions

CallRecord(self, op, candles, out) ==
    [self |-> self, op |-> op, candles |-> candles, out |-> out]

\* SimpleSignalStrategy(ma_period=period): a ValueError leaves the caller
\* with the strategy it had, if any.
Construct(period) ==
    /\ scalls < MaxSignalCalls
    /\ scalls' = scalls + 1
    /\ stratOut' = Some([arg |-> period, out |-> NewStrategy(period)])
    /\ strat' = IF NewStrategy(period).exc = None
                  THEN Some(NewStrategy(period).value)
                  ELSE strat
    /\ UNCHANGED << scall, sfirst >>
    /\ UNCHANGED << now, guardVars, cacheVars, pipeVars >>

\* strategy.compute_ma(candles)
ComputeMaCall(candles) ==
    /\ strat # None
    /\ scalls < MaxSignalCalls
    /\ scalls' = scalls + 1
    /\ scall' = Some(CallRecord(strat[1], "compute_ma", candles,
                                Returns(ComputeMa(strat[1], candles))))
    /\ UNCHANGED << strat, stratOut, sfirst >>
    /\ UNCHANGED << now, guardVars, cacheVars, pipeVars >>

\* What is remembered of the first generate call: the call, and whether a
\* call on another list has followed it.
Remembered(first, call) ==
    IF first = None THEN Some([call |-> call, mixed |-> FALSE])
    ELSE IF call.candles # first[1].call.candles
      THEN Some([first[1] EXCEPT !.mixed = TRUE])
    ELSE first

\* strategy.generate(candles); the first call is remembered where repeated
\* calls are compared.
GenerateCall(candles, max, remember) ==
    /\ strat # None
    /\ scalls < max
    /\ scalls' = scalls + 1
    /\ scall' = Some(CallRecord(strat[1], "generate", candles,
                                Returns(Generate(strat[1], candles))))
    /\ sfirst' = IF remember THEN Remembered(sfirst, scall'[1]) ELSE sfirst
    /\ UNCHANGED << strat, stratOut >>
    /\ UNCHANGED << now, guardVars, cacheVars, pipeVars >>

InitSignal ==
    /\ now = Epoch
    /\ cooldownSecs = 0
    /\ GuardNew
    /\ CacheNew(0)
    /\ SignalNew
    /\ PipeNew

NextSignal ==
    \/ \E period \in -1..MaxPeriod : Construct(period)
    \/ \E candles \in CandleLists : ComputeMaCall(candles)
    \/ \E candles \in CandleLists : GenerateCall(candles, MaxSignalCalls, FALSE)

\* A caller constructing strategies and calling them.
SpecSignal == InitSignal /\ [][NextSignal]_vars

\* A strategy as SimpleSignalStrategy(ma_period=period) leaves it.
InitRepeat ==
    /\ now = Epoch
    /\ cooldownSecs = 0
    /\ GuardNew
    /\ CacheNew(0)
    /\ PipeNew
    /\ \E period \in 2..MaxPeriod :
          /\ strat = Some(NewStrategy(period).value)
          /\ stratOut = Some([arg |-> period, out |-> NewStrategy(period)])
    /\ scall = None
    /\ sfirst = None
    /\ scalls = 0

NextRepeat ==
    \/ Tick
    \/ ExecuteHold(1, 1)
    \/ GetKlines(TRUE)
    \/ \E candles \in RepeatLists : GenerateCall(candles, MaxRepeatCalls, TRUE)

\* generate called again and again on one strategy while the clock, the
\* guard and the cache move on.
SpecRepeat == InitRepeat /\ [][NextRepeat]_vars

\* ------------------------------------------------------------- pipeline
\* run_pipeline (cryptex/cli.py): one cycle of ping, fetch, signal and
\* order, on a client, a market data service and a guard of its own.

\* config.ma_period (ge=2) and the dry_run argument.
PipelineConfigs == [ma_period : 2..MaxPeriod, dry_run : BOOLEAN]

\* client.ping(): True, or the BinanceClientError of the request.
PingAnswers == { Returns(TRUE) } \cup { Raises(e) : e \in FetchErrors }

RawKline3 == << 3, "2.00", "2.00", "1.00", "1.50", "1.00" >>

\* Answers of client.get_klines in a cycle: rising, falling and level closes,
\* a single kline, none, or an error.
PipelineKlinesAnswers ==
    { Returns(raw) : raw \in { <<>>, <<RawKline1>>, <<RawKline1, RawKline2>>,
                               <<RawKline2, RawKline3>>,
                               <<RawKline1, RawKline3>> } }
      \cup { Raises(e) : e \in FetchErrors }

\* run_pipeline has not been called; the guard it will build has the default
\* cooldown, the service the configured ttl.
InitPipeline ==
    /\ now = Epoch
    /\ cooldownSecs = MaxCooldown
    /\ GuardNew
    /\ CacheNew(MaxTtl)
    /\ SignalNew
    /\ PipeNew

\* run_pipeline up to the await of client.ping().
RunPipeline(config) ==
    /\ ppc = "idle"
    /\ ppc' = "ping"
    /\ pcfg' = Some(config)
    /\ plog' = Append(plog, "ping")
    /\ UNCHANGED pret
    /\ UNCHANGED << now, guardVars, cacheVars, signalVars >>

\* A return or an exception leaving run_pipeline without the finally clause.
Leave_WithoutClose(outcome, event) ==
    /\ ppc' = "returned"
    /\ pret' = Some(outcome)
    /\ plog' = Append(plog, event)

\* A return or an exception reaches the finally clause: client.close() is
\* awaited with the outcome pending.
Leave(outcome, event) ==
    /\ ppc' = "closing"
    /\ pret' = Some(outcome)
    /\ plog' = plog \o << event, "close" >>

\* The pipeline goes on to its next await.
GoOn(stage, event) ==
    /\ ppc' = stage
    /\ pret' = pret
    /\ plog' = Append(plog, event)

\* client.ping() answered.
PingDone(answer) ==
    /\ ppc = "ping"
    /\ IF answer.exc # None
         THEN Leave(Raises(answer.exc[1]), "ping raised")
       ELSE IF ~answer.value
         THEN Leave(Returns(1), "ping false")
       ELSE GoOn("fetch", "connected")
    /\ UNCHANGED pcfg
    /\ UNCHANGED << now, guardVars, cacheVars, signalVars >>

\* get_klines_and_ticker is awaited once.
CanFetch == ppc = "fetch" /\ jpc = "idle"

\* The two fetch tasks run while the pipeline waits for them, and a task
\* left behind by a failed gather runs on while the client is closed.
Fetching == ppc \in {"fetch", "closing"}

\* Lines 38-80 without the dry-run return: every LONG or SHORT signal goes on
\* to execute.
Decide_IgnoresDryRun(candles) ==
    LET made == NewStrategy(pcfg[1].ma_period)
        self == made.value
        signal == Generate(self, candles)
        ma == ComputeMa(self, candles)
    IN  IF candles = <<>>
          THEN /\ Leave(Returns(1), "no candles")
               /\ UNCHANGED signalVars
        ELSE IF made.exc # None
          THEN /\ Leave(Raises(made.exc[1]), "strategy raised")
               /\ stratOut' = Some([arg |-> pcfg[1].ma_period, out |-> made])
               /\ UNCHANGED << strat, scall, sfirst, scalls >>
        ELSE /\ strat' = Some(self)
             /\ stratOut' = Some([arg |-> pcfg[1].ma_period, out |-> made])
             /\ sfirst' = Some([call |-> CallRecord(self, "generate", candles,
                                                    Returns(signal)),
                                mixed |-> FALSE])
             /\ scall' = Some(CallRecord(self, "compute_ma", candles,
                                         Returns(ma)))
             /\ scalls' = scalls + 2
             /\ IF signal = HOLD THEN Leave(Returns(0), "hold")
                ELSE GoOn("trade", "execute")

\* Lines 38-80: the candles are checked, the strategy is built and asked,
\* and the pipeline returns or goes on to execute.
Decide(candles) ==
    LET made == NewStrategy(pcfg[1].ma_period)
        self == made.value
        signal == Generate(self, candles)
        ma == ComputeMa(self, candles)
    IN  IF candles = <<>>
          THEN /\ Leave(Returns(1), "no candles")
               /\ UNCHANGED signalVars
        ELSE IF made.exc # None
          THEN /\ Leave(Raises(made.exc[1]), "strategy raised")
               /\ stratOut' = Some([arg |-> pcfg[1].ma_period, out |-> made])
               /\ UNCHANGED << strat, scall, sfirst, scalls >>
        ELSE /\ strat' = Some(self)
             /\ stratOut' = Some([arg |-> pcfg[1].ma_period, out |-> made])
             /\ sfirst' = Some([call |-> CallRecord(self, "generate", candles,
                                                    Returns(signal)),
                                mixed |-> FALSE])
             /\ scall' = Some(CallRecord(self, "compute_ma", candles,
                                         Returns(ma)))
             /\ scalls' = scalls + 2
             /\ IF signal = HOLD THEN Leave(Returns(0), "hold")
                ELSE IF pcfg[1].dry_run THEN Leave(Returns(0), "dry run")
                ELSE GoOn("trade", "execute")

\* get_klines_and_ticker returned the candles and the price.
FetchDone ==
    /\ ppc = "fetch"
    /\ jpc = "done"
    /\ Decide(jret[1].value[1])
    /\ UNCHANGED pcfg
    /\ UNCHANGED << now, guardVars, cacheVars >>

\* A failed fetch answered with the candles the cache holds.
FetchRaised_UsesCache ==
    /\ ppc = "fetch"
    /\ jpc = "raised"
    /\ Decide(cacheCandles)
    /\ UNCHANGED pcfg
    /\ UNCHANGED << now, guardVars, cacheVars >>

\* get_klines_and_ticker raised: nothing catches it.
FetchRaised ==
    /\ ppc = "fetch"
    /\ jpc = "raised"
    /\ Leave(Raises(jret[1].exc[1]), "fetch raised")
    /\ UNCHANGED pcfg
    /\ UNCHANGED << now, guardVars, cacheVars, signalVars >>

\* The signal that strategy.generate returned to the pipeline.
PipeSignal == sfirst[1].call.out.value

\* execute awaited again after it has returned.
CanTrade_Again == ppc = "trade" /\ pc[1] \in {"idle", "done"}

\* order_manager.execute(signal) is awaited once, on the new guard.
CanTrade == ppc = "trade" /\ pc[1] = "idle"

\* The exception that left execute.
Escaped(t) ==
    IF placeResp[t] # None /\ placeResp[t][1].exc # None
      THEN placeResp[t][1].exc[1]
      ELSE openResp[t][1].exc[1]

\* A result without success answered with exit code 1.
Traded_FailureExits ==
    /\ ppc = "trade"
    /\ pc[1] \in {"done", "raised"}
    /\ IF pc[1] = "raised" THEN Leave(Raises(Escaped(1)), "execute raised")
       ELSE IF result[1][1].success THEN Leave(Returns(0), "order placed")
       ELSE Leave(Returns(1), "order failed")
    /\ UNCHANGED pcfg
    /\ UNCHANGED << now, guardVars, cacheVars, signalVars >>

\* execute returned its result: it is logged and the pipeline returns 0.
Traded ==
    /\ ppc = "trade"
    /\ pc[1] \in {"done", "raised"}
    /\ IF pc[1] = "raised" THEN Leave(Raises(Escaped(1)), "execute raised")
       ELSE IF result[1][1].success THEN Leave(Returns(0), "order placed")
       ELSE Leave(Returns(0), "order failed")
    /\ UNCHANGED pcfg
    /\ UNCHANGED << now, guardVars, cacheVars, signalVars >>

\* client.close() returned: run_pipeline returns or raises what was pending.
Closed ==
    /\ ppc = "closing"
    /\ ppc' = "returned"
    /\ plog' = Append(plog, "closed")
    /\ UNCHANGED << pcfg, pret >>
    /\ UNCHANGED << now, guardVars, cacheVars, signalVars >>

NextPipeline ==
    \/ Tick
    \/ \E config \in PipelineConfigs : RunPipeline(config)
    \/ \E answer \in PingAnswers : PingDone(answer)
    \/ CanFetch /\ GetKlinesAndTicker(FALSE)
    \/ Fetching /\ \E answer \in PipelineKlinesAnswers : KlinesReturn(answer)
    \/ Fetching /\ \E answer \in PipelineKlinesAnswers : KlinesRaise(answer)
    \/ Fetching /\ \E outcome \in PersistOutcomes : PersistDone(outcome)
    \/ Fetching /\ \E answer \in TickerAnswers : TickerReturn(answer)
    \/ Fetching /\ \E answer \in TickerAnswers : TickerRaise(answer)
    \/ FetchDone
    \/ FetchRaised
    \/ CanTrade /\ Execute(1, PipeSignal, MaxCalls)
    \/ \E answer \in OpenOrdersAnswers : OpenOrdersSkip(1, answer)
    \/ \E answer \in OpenOrdersAnswers : Submit(1, answer)
    \/ \E response \in OrderResponses : PlaceReturn(1, response)
    \/ \E e \in ExchangeErrors : PlaceRaise(1, e)
    \/ Traded
    \/ Closed

\* One run_pipeline call with the exchange answering as it may.
SpecPipeline == InitPipeline /\ [][NextPipeline]_vars

\* ------------------------------------------------------------- cycles
\* run_pipeline called again in the same process, as a scheduler of cycles
\* does.

\* The run_pipeline calls made so far, once the first has started.
CyclesRun == Cardinality({ k \in 1..Len(plog) : plog[k] = "cycle" }) + 1

\* run_pipeline is called again with the same config, up to the await of
\* client.ping(): the call builds its own client, its own MarketDataService
\* and its own OrderManager (cli.py:17-21, 30-35, 75-80), so it starts from an
\* empty cache and an empty cooldown map; the clock, the exchange's record of
\* accepted orders and the candle file stay.
RunPipelineAgain ==
    /\ ppc = "returned"
    /\ CyclesRun < MaxCycles
    /\ ppc' = "ping"
    /\ pret' = None
    /\ plog' = [k \in 1..CyclesRun |-> "cycle"] \o << "ping" >>
    /\ cacheCandles' = <<>>
    /\ tickerPrice' = None
    /\ lastUpdated' = 0
    /\ kpc' = "idle" /\ kop' = NoFrame /\ kret' = None
    /\ qpc' = "idle" /\ qop' = NoFrame /\ qret' = None
    /\ jpc' = "idle" /\ jret' = None /\ jlog' = <<>>
    /\ lastCandleFetch' = None
    /\ lastQuoteFetch' = None
    /\ cacheOps' = 0
    /\ lastOrderTime' = EmptyDict
    /\ pc' = [t \in Tasks |-> "idle"]
    /\ sig' = [t \in Tasks |-> HOLD]
    /\ openResp' = [t \in Tasks |-> None]
    /\ placeResp' = [t \in Tasks |-> None]
    /\ prev' = [t \in Tasks |-> None]
    /\ checkedAt' = [t \in Tasks |-> NoTime]
    /\ calls' = [t \in Tasks |-> <<>>]
    /\ result' = [t \in Tasks |-> NoResult]
    /\ ncalls' = 0
    /\ strat' = None
    /\ stratOut' = None
    /\ scall' = None
    /\ sfirst' = None
    /\ scalls' = 0
    /\ UNCHANGED << now, cooldownSecs, orders, ttl, disk, pcfg >>

NextCycles == NextPipeline \/ RunPipelineAgain

\* Cycle after cycle in one process.
SpecCycles == InitPipeline /\ [][NextCycles]_vars

\* ------------------------------------------------------------- properties

\* The side a signal stands for (spec 4.3: LONG -> BUY, SHORT -> SELL).
ExpectedSide(signal) == CASE signal = LONG -> BUY [] signal = SHORT -> SELL

Mentions(message, words) == \E k \in 1..Len(message) : message[k] = words

\* The place_market_order calls an execute call has made.
PlaceCalls(cs) == { k \in 1..Len(cs) : cs[k].method = "place_market_order" }

\* The call of t got the answer "no open orders" from the exchange.
NoOpenOrdersReported(t) ==
    openResp[t] # None /\ openResp[t][1].exc = None /\ openResp[t][1].orders = 0

\* The entry of the log that this call of t added, if it has added one.
OwnOrder(t) ==
    IF placeResp[t] # None /\ placeResp[t][1].exc = None
      THEN { k \in 1..Len(orders) :
               /\ orders[k].task = t
               /\ \A j \in (k + 1)..Len(orders) : orders[j].task # t }
      ELSE {}

IsSkip(t, words) ==
    /\ pc[t] = "done"
    /\ PlaceCalls(calls[t]) = {}
    /\ result[t] # None
    /\ ~result[t][1].success
    /\ Mentions(result[t][1].message, words)

\* C1: two execute calls of different callers on the same side never both
\* submit successfully where a serial run would have blocked the second: the
\* accepted submissions of two callers on one side end at least
\* cooldown_seconds apart.
C1_ConcurrentExecuteSerialized ==
    \A i, j \in 1..Len(orders) :
        (i < j /\ orders[i].task # orders[j].task /\ orders[i].side = orders[j].side)
            => orders[j].doneAt - orders[i].doneAt >= cooldownSecs

\* C2: with one caller, two accepted submissions on one side are never less
\* than cooldown_seconds apart, and an execute whose cooldown check falls
\* less than cooldown_seconds after an earlier accepted submission on its
\* side (no open orders reported) submits nothing and returns a failed
\* result that mentions the cooldown.
C2_SameSideCooldown ==
    /\ \A i, j \in 1..Len(orders) :
          (i < j /\ orders[i].side = orders[j].side)
              => orders[j].issuedAt - orders[i].doneAt >= cooldownSecs
    /\ \A t \in Tasks :
          ( /\ sig[t] \in {LONG, SHORT}
            /\ NoOpenOrdersReported(t)
            /\ \E k \in 1..Len(orders) :
                  /\ k \notin OwnOrder(t)
                  /\ orders[k].side = ExpectedSide(sig[t])
                  /\ checkedAt[t] - orders[k].doneAt < cooldownSecs )
              => IsSkip(t, "cooldown active")

C2_Witness ==
    /\ IsSkip(1, "cooldown active")
    /\ sig[1] = LONG
    /\ NoOpenOrdersReported(1)
    /\ \E k \in 1..Len(orders) : orders[k].side = BUY /\ now > orders[k].doneAt

\* C3: when get_open_orders fails, execute makes no place_market_order call
\* and returns the failed result it returns when open orders exist.
C3_FailSafeOpenOrders ==
    \A t \in Tasks :
        (openResp[t] # None /\ openResp[t][1].exc # None)
            => /\ IsSkip(t, "open orders exist for")
               /\ result[t][1] =
                    [success |-> FALSE, order_id |-> None, response |-> None,
                     message |-> <<"Skipping", ExpectedSide(sig[t]),
                                   "open orders exist for", Symbol>>]

C3_Witness ==
    \E t \in Tasks :
        /\ openResp[t] # None /\ openResp[t][1].exc # None
        /\ pc[t] = "done" /\ sig[t] = SHORT
        /\ ~IsOnCooldown(SELL)

\* C4: when the exchange reports at least one open order, execute makes no
\* place_market_order call and returns a failed result that mentions the
\* open orders, on cooldown or not.
C4_OpenOrdersBlock ==
    \A t \in Tasks :
        (openResp[t] # None /\ openResp[t][1].exc = None /\ openResp[t][1].orders >= 1)
            => IsSkip(t, "open orders exist for")

C4_Witness ==
    \E t \in Tasks :
        /\ openResp[t] # None /\ openResp[t][1].exc = None /\ openResp[t][1].orders >= 1
        /\ pc[t] = "done" /\ sig[t] = LONG
        /\ \E k \in 1..Len(orders) :
              orders[k].side = BUY /\ now - orders[k].doneAt < cooldownSecs

\* The caller's previous execute call called place_market_order for
\* `signal` and returned an OrderResult with this success flag.
PrevSubmitted(t, signal, success) ==
    /\ prev[t] # None
    /\ prev[t][1].sig = signal
    /\ prev[t][1].submitted
    /\ prev[t][1].success = success

\* This call of t has called place_market_order with the side of its signal.
HasSubmitted(t) ==
    /\ pc[t] \in {"place", "done"}
    /\ \E k \in PlaceCalls(calls[t]) : calls[t][k].side = ExpectedSide(sig[t])
    /\ pc[t] = "done" => ~Mentions(result[t][1].message, "cooldown active")

\* C5: with one caller, the execute that follows an execute whose
\* place_market_order failed, on the same side and with no open orders
\* reported, is not blocked by the cooldown and calls place_market_order.
C5_RejectionDoesNotPoisonCooldown ==
    \A t \in Tasks :
        ( /\ sig[t] \in {LONG, SHORT}
          /\ PrevSubmitted(t, sig[t], FALSE)
          /\ NoOpenOrdersReported(t) )
            => HasSubmitted(t)

C5_Witness ==
    /\ cooldownSecs > 0
    /\ sig[1] = LONG
    /\ PrevSubmitted(1, LONG, FALSE)
    /\ NoOpenOrdersReported(1)
    /\ checkedAt[1] = now
    /\ pc[1] = "place"

\* A step in which an execute call gets the order record back from
\* place_market_order.
SubmissionAccepted(t) ==
    /\ pc[t] = "place"
    /\ pc'[t] = "done"
    /\ result'[t] # None
    /\ result'[t][1].success

\* C6: _last_order_time changes only in the step of an execute call whose
\* place_market_order returned successfully, and that step sets the entry of
\* the call's side to the current time and leaves every other entry alone.
C6_CooldownMapFrame ==
    [][ /\ lastOrderTime' # lastOrderTime => \E t \in Tasks : SubmissionAccepted(t)
        /\ \A t \in Tasks :
              SubmissionAccepted(t) =>
                  /\ DOMAIN lastOrderTime' = DOMAIN lastOrderTime \cup {ExpectedSide(sig[t])}
                  /\ lastOrderTime'[ExpectedSide(sig[t])] = now
                  /\ \A s \in DOMAIN lastOrderTime \ {ExpectedSide(sig[t])} :
                        lastOrderTime'[s] = lastOrderTime[s] ]_vars

C6_Witness ==
    \E t \in Tasks :
        /\ pc[t] = "done" /\ sig[t] = SHORT /\ result[t][1].success
        /\ DOMAIN lastOrderTime = {BUY, SELL}
        /\ lastOrderTime[SELL] = now
        /\ lastOrderTime[BUY] < now

\* C7: execute(HOLD) calls no client method and returns a successful
\* OrderResult, whatever the guard and the other callers are doing.
C7_HoldIsNoOp ==
    \A t \in Tasks :
        (pc[t] # "idle" /\ sig[t] = HOLD)
            => /\ pc[t] = "done"
               /\ calls[t] = <<>>
               /\ openResp[t] = None /\ placeResp[t] = None
               /\ result[t] # None
               /\ result[t][1].success

C7_Witness ==
    \E t \in Tasks :
        /\ sig[t] = HOLD /\ pc[t] = "done"
        /\ prev[t] # None /\ prev[t][1].submitted /\ prev[t][1].success
        /\ \E k \in 1..Len(orders) :
              orders[k].task = t /\ now - orders[k].doneAt < cooldownSecs

\* C8: no exception leaves execute, a returned call has an OrderResult, and
\* a call in which get_open_orders or place_market_order failed returns
\* success = false.
C8_NeverRaises ==
    \A t \in Tasks :
        /\ pc[t] # "raised"
        /\ pc[t] = "done" =>
              /\ result[t] # None
              /\ DOMAIN result[t][1] = {"success", "order_id", "message", "response"}
              /\ result[t][1].success \in BOOLEAN
        /\ ( \/ (openResp[t] # None /\ openResp[t][1].exc # None)
              \/ (placeResp[t] # None /\ placeResp[t][1].exc # None) )
              => (pc[t] = "done" /\ ~result[t][1].success)

C8_Witness ==
    \E t \in Tasks, u \in Tasks :
        /\ pc[t] = "done" /\ placeResp[t] # None /\ placeResp[t][1].exc # None
        /\ pc[u] = "done" /\ openResp[u] # None /\ openResp[u][1].exc # None

\* C9: every place_market_order call of execute carries the configured
\* symbol, the fixed position size, and BUY for LONG, SELL for SHORT.
C9_SideMapping ==
    \A t \in Tasks :
        \A k \in PlaceCalls(calls[t]) :
            /\ sig[t] \in {LONG, SHORT}
            /\ calls[t][k] =
                 [method |-> "place_market_order", symbol |-> Symbol,
                  side |-> ExpectedSide(sig[t]), quantity |-> PositionSizeMilli]

C9_Witness ==
    \E t \in Tasks, u \in Tasks :
        /\ sig[t] = LONG /\ \E k \in PlaceCalls(calls[t]) : calls[t][k].side = BUY
        /\ sig[u] = SHORT /\ \E k \in PlaceCalls(calls[u]) : calls[u][k].side = SELL

\* The caller's previous execute call submitted successfully on the side
\* opposite to this call's, and this call got "no open orders".
AfterOppositeSuccess(t) ==
    /\ sig[t] \in {LONG, SHORT}
    /\ PrevSubmitted(t, IF sig[t] = LONG THEN SHORT ELSE LONG, TRUE)
    /\ NoOpenOrdersReported(t)

\* An accepted submission of another call on this call's side ended less
\* than cooldown_seconds before this call's cooldown check.
OwnSideInWindow(t) ==
    \E k \in 1..Len(orders) :
        /\ k \notin OwnOrder(t)
        /\ orders[k].side = ExpectedSide(sig[t])
        /\ checkedAt[t] - orders[k].doneAt < cooldownSecs

\* C10 as stated: execute(SHORT) right after a successful execute(LONG), no
\* open orders reported, is never rejected for cooldown and submits a SELL
\* (and the same with the sides exchanged).
C10_OppositeSideAlwaysSubmits ==
    \A t \in Tasks : AfterOppositeSuccess(t) => HasSubmitted(t)

\* C10 as amended: the same, unless the call's own side had an accepted
\* submission less than cooldown_seconds before.
C10_SideCooldownsIndependent ==
    \A t \in Tasks :
        (AfterOppositeSuccess(t) /\ ~OwnSideInWindow(t)) => HasSubmitted(t)

C10_Witness ==
    /\ cooldownSecs > 0
    /\ sig[1] = SHORT
    /\ AfterOppositeSuccess(1)
    /\ lastOrderTime[BUY] = now
    /\ pc[1] = "done"
    /\ result[1][1].success

\* ------------------------------------------------------------- properties
\* of the market data cache

\* This step starts a get_klines call (alone or as a task of
\* get_klines_and_ticker); the call has then either returned the cached
\* candles or called client.get_klines.
KlinesStarted ==
    cacheOps' # cacheOps /\ Finished(kpc) /\ kpc' \in {"fetch", "done"}

\* This step starts a get_ticker_price call.
TickerStarted ==
    cacheOps' # cacheOps /\ Finished(qpc) /\ qpc' \in {"fetch", "done"}

\* Seconds since the successful fetch that is recorded in fetch.
Age(fetch) == now - fetch[1].at

\* C11 as stated: after a successful candle fetch, a get_klines call with
\* force_refresh = false that starts before the ttl has elapsed makes no
\* exchange call and returns the sequence of that fetch.
C11_FreshCandlesServedFromCache ==
    [][ (/\ KlinesStarted
         /\ ~kop'.force
         /\ lastCandleFetch # None
         /\ Age(lastCandleFetch) < ttl)
        => (/\ kpc' = "done"
            /\ kop'.calls = <<>>
            /\ kret' = Some(Returns(lastCandleFetch[1].value))) ]_vars

\* C11 amended: the same, when the fetched sequence is not empty.
C11_FreshNonEmptyCandlesServedFromCache ==
    [][ (/\ KlinesStarted
         /\ ~kop'.force
         /\ lastCandleFetch # None
         /\ lastCandleFetch[1].value # <<>>
         /\ Age(lastCandleFetch) < ttl)
        => (/\ kpc' = "done"
            /\ kop'.calls = <<>>
            /\ kret' = Some(Returns(lastCandleFetch[1].value))) ]_vars

\* A get_klines call has just returned the candles of a fetch that is
\* younger than the ttl, without a client call.
C11_Witness ==
    /\ kpc = "done"
    /\ kop.calls = <<>>
    /\ lastCandleFetch # None
    /\ Age(lastCandleFetch) < ttl
    /\ kret = Some(Returns(lastCandleFetch[1].value))

\* The entry whose last successful fetch is recorded in fetch was never
\* written, or was written more than ttl seconds ago.
OwnStale(fetch) == fetch = None \/ Age(fetch) > ttl

\* C12: after a successful candle fetch, a get_klines call with
\* force_refresh = false that starts more than ttl seconds after that fetch
\* makes exactly one new client.get_klines call, whatever other calls
\* (quote fetches included) were made on the cache in between.
C12_StaleCandlesRefetched ==
    [][ (/\ KlinesStarted
         /\ ~kop'.force
         /\ lastCandleFetch # None
         /\ Age(lastCandleFetch) > ttl)
        => (/\ kpc' = "fetch"
            /\ kop'.calls = <<GetKlinesCall>>) ]_vars

\* C13: the candle entry and the quote entry have independent staleness
\* clocks: a get_klines call fetches exactly when it is forced, or the candle
\* entry is empty, or the last successful candle fetch is more than ttl
\* seconds old, and a get_ticker_price call fetches exactly when it is
\* forced, or the quote entry holds no price, or the last successful quote
\* fetch is more than ttl seconds old.
C13_IndependentStalenessClocks ==
    [][ /\ KlinesStarted =>
             (kpc' = "fetch" <=>
                \/ kop'.force
                \/ ~HasCandles(cacheCandles)
                \/ OwnStale(lastCandleFetch))
        /\ TickerStarted =>
             (qpc' = "fetch" <=>
                \/ qop'.force
                \/ ~HasPrice(tickerPrice)
                \/ OwnStale(lastQuoteFetch)) ]_vars

\* C14: whenever get_klines or get_ticker_price returns a cached value
\* without calling the exchange, that value was captured by a successful
\* fetch of the same entry at most ttl seconds before.
C14_CachedValueAtMostTtlOld ==
    [][ /\ (KlinesStarted /\ kpc' = "done") =>
             /\ lastCandleFetch # None
             /\ kret' = Some(Returns(lastCandleFetch[1].value))
             /\ Age(lastCandleFetch) <= ttl
        /\ (TickerStarted /\ qpc' = "done") =>
             /\ lastQuoteFetch # None
             /\ qret' = Some(Returns(lastQuoteFetch[1].value))
             /\ Age(lastQuoteFetch) <= ttl ]_vars

\* C15: an entry that was never written successfully is never returned as
\* fresh: get_klines and get_ticker_price fetch, at any clock value and
\* whenever the other entry was written.
C15_NeverWrittenEntryIsFetched ==
    [][ /\ (KlinesStarted /\ lastCandleFetch = None) =>
             (kpc' = "fetch" /\ kop'.calls = <<GetKlinesCall>>)
        /\ (TickerStarted /\ lastQuoteFetch = None) =>
             (qpc' = "fetch" /\ qop'.calls = <<GetTickerPriceCall>>) ]_vars

\* get_klines, not forced, has called the exchange for candles that were
\* never fetched, while the quote written within the ttl keeps the cache's
\* clock fresh.
C15_Witness ==
    /\ kpc = "fetch"
    /\ ~kop.force
    /\ lastCandleFetch = None
    /\ lastQuoteFetch # None
    /\ Age(lastQuoteFetch) <= ttl
    /\ ~IsStale

\* The candles a list of raw klines stands for: the same records in the same
\* order.
SameRecords(candles, raw) ==
    /\ Len(candles) = Len(raw)
    /\ \A i \in 1..Len(raw) :
          /\ candles[i].open_time = raw[i][1]
          /\ candles[i].open = FloatOf(raw[i][2])
          /\ candles[i].high = FloatOf(raw[i][3])
          /\ candles[i].low = FloatOf(raw[i][4])
          /\ candles[i].close = FloatOf(raw[i][5])
          /\ candles[i].volume = FloatOf(raw[i][6])

\* This step is the arrival of the answer of client.get_klines.
KlinesAnswered == kop.answer = None /\ kop'.answer # None

\* This step is the arrival of the answer of client.get_ticker_price.
TickerAnswered == qop.answer = None /\ qop'.answer # None

\* C16: force_refresh = true always calls the exchange, also when the entry
\* is non-empty and fresh, and when the fetch succeeds the cache holds the
\* newly fetched value.
C16_ForceRefreshAlwaysFetches ==
    [][ /\ (KlinesStarted /\ kop'.force) =>
             (kpc' = "fetch" /\ kop'.calls = <<GetKlinesCall>>)
        /\ (TickerStarted /\ qop'.force) =>
             (qpc' = "fetch" /\ qop'.calls = <<GetTickerPriceCall>>)
        /\ (KlinesAnswered /\ kop.force /\ kop'.answer[1].exc = None) =>
             SameRecords(cacheCandles', kop'.answer[1].value)
        /\ (TickerAnswered /\ qop.force /\ qop'.answer[1].exc = None) =>
             tickerPrice' = Some(FloatOf(qop'.answer[1].value.price)) ]_vars

\* A forced get_klines call is waiting for the exchange while the cache
\* holds candles and is not stale.
C16_Witness ==
    /\ kpc = "fetch"
    /\ kop.force
    /\ HasCandles(cacheCandles)
    /\ lastCandleFetch # None
    /\ Age(lastCandleFetch) <= ttl
    /\ ~IsStale

\* C17: a successful candle fetch replaces the cached sequence by the fetched
\* one (same records, same order, nothing old kept), stamps the capture time
\* with the clock, and get_klines returns exactly the new sequence.
C17_CandleFetchReplacesCache ==
    [][ /\ (KlinesAnswered /\ kop'.answer[1].exc = None) =>
             /\ SameRecords(cacheCandles', kop'.answer[1].value)
             /\ lastUpdated' = now
        /\ (kpc # "done" /\ kpc' = "done" /\ kop'.calls # <<>>) =>
             /\ kret' # None
             /\ kret'[1].exc = None
             /\ SameRecords(kret'[1].value, kop'.answer[1].value) ]_vars

\* get_klines has returned a freshly fetched sequence of one candle though
\* the file still holds the two candles that were cached before.
C17_Witness ==
    /\ kpc = "done"
    /\ kop.calls # <<>>
    /\ Len(cacheCandles) = 1
    /\ kret = Some(Returns(cacheCandles))
    /\ disk # None
    /\ Len(disk[1]) = 2

\* C18: a failed candle or quote fetch leaves the call as the error it
\* failed with, after exactly one exchange call, with the cached values and
\* the capture time as they were; the old cached value is not returned.
C18_FailedFetchPropagates ==
    [][ /\ (KlinesAnswered /\ kop'.answer[1].exc # None) =>
             /\ kpc' = "raised"
             /\ kret' = Some(Raises(kop'.answer[1].exc[1]))
             /\ kop'.calls = <<GetKlinesCall>>
             /\ UNCHANGED << cacheCandles, tickerPrice, lastUpdated >>
        /\ (TickerAnswered /\ qop'.answer[1].exc # None) =>
             /\ qpc' = "raised"
             /\ qret' = Some(Raises(qop'.answer[1].exc[1]))
             /\ qop'.calls = <<GetTickerPriceCall>>
             /\ UNCHANGED << cacheCandles, tickerPrice, lastUpdated >> ]_vars

\* get_klines has raised while the cache holds the candles of an earlier
\* fetch.
C18_Witness ==
    /\ kpc = "raised"
    /\ kret # None
    /\ kret[1].exc # None
    /\ HasCandles(cacheCandles)
    /\ lastCandleFetch # None

\* C19: a cached quote of exactly zero counts as no value: get_ticker_price,
\* not forced, fetches whenever the cached price is 0, also when it is fresh;
\* a fresh price other than 0 is returned without an exchange call.
C19_ZeroQuoteIsNoValue ==
    [][ /\ (TickerStarted /\ ~qop'.force /\ tickerPrice = Some(0)) =>
             (qpc' = "fetch" /\ qop'.calls = <<GetTickerPriceCall>>)
        /\ (/\ TickerStarted
            /\ ~qop'.force
            /\ tickerPrice # None
            /\ tickerPrice # Some(0)
            /\ lastQuoteFetch # None
            /\ Age(lastQuoteFetch) <= ttl) =>
             /\ qpc' = "done"
             /\ qop'.calls = <<>>
             /\ qret' = Some(Returns(tickerPrice[1])) ]_vars

\* get_ticker_price, not forced, is fetching a new price while the cache
\* holds a price of 0 that was fetched within the ttl.
C19_Witness ==
    /\ qpc = "fetch"
    /\ ~qop.force
    /\ tickerPrice = Some(0)
    /\ lastQuoteFetch # None
    /\ Age(lastQuoteFetch) <= ttl
    /\ ~IsStale

\* This step starts a get_klines_and_ticker call.
JointStarted == cacheOps' # cacheOps /\ jpc' # "idle"

IsCall(event) == event \in {"call get_klines", "call get_ticker_price"}

\* In the log, every call was issued before any answer arrived, and no call
\* was issued twice.
CallsBeforeAnswers(log) ==
    /\ \A i, j \in 1..Len(log) : (IsCall(log[j]) /\ ~IsCall(log[i])) => j < i
    /\ \A i, j \in 1..Len(log) : (IsCall(log[i]) /\ log[i] = log[j]) => i = j

\* C20: when both entries are stale (or force_refresh is set),
\* get_klines_and_ticker makes exactly one client.get_klines call and exactly
\* one client.get_ticker_price call, both issued before either is answered,
\* and returns the pair of the two results.
C20_JointFetchIsConcurrent ==
    [][ /\ (/\ JointStarted
            /\ \/ kop'.force
               \/ OwnStale(lastCandleFetch) /\ OwnStale(lastQuoteFetch)) =>
             /\ kop'.calls = <<GetKlinesCall>>
             /\ qop'.calls = <<GetTickerPriceCall>>
             /\ jlog' = <<"call get_klines", "call get_ticker_price">>
             /\ jpc' = "waiting"
        /\ CallsBeforeAnswers(jlog')
        /\ (jpc' = "done" /\ kop'.calls # <<>> /\ qop'.calls # <<>>) =>
             /\ jret' # None
             /\ jret'[1].exc = None
             /\ SameRecords(jret'[1].value[1], kop'.answer[1].value)
             /\ jret'[1].value[2] = FloatOf(qop'.answer[1].value.price) ]_vars

\* get_klines_and_ticker has returned after one call of each kind, the quote
\* having been answered before the candles.
C20_Witness ==
    /\ jpc = "done"
    /\ kop.calls = <<GetKlinesCall>>
    /\ qop.calls = <<GetTickerPriceCall>>
    /\ jlog = << "call get_klines", "call get_ticker_price",
                 "answer get_ticker_price", "answer get_klines" >>
    /\ jret = Some(Returns(<< cacheCandles, tickerPrice[1] >>))

\* ------------------------------------------------------------- properties
\* of the strategy

\* The sum of the closes of candles[lo..hi].
RECURSIVE CloseSum(_, _, _)
CloseSum(candles, lo, hi) ==
    IF lo > hi THEN 0 ELSE candles[lo].close + CloseSum(candles, lo + 1, hi)

\* q is the arithmetic mean of the closes of the last period candles.
IsMeanOfLast(q, candles, period) ==
    /\ q.den > 0
    /\ q.num * period =
         q.den * CloseSum(candles, Len(candles) - period + 1, Len(candles))

\* Two quotients stand for the same number.
SameNumber(q, r) == q.num * r.den = r.num * q.den

\* The two lists end in the same period candles.
SameTail(a, b, period) ==
    /\ Len(a) >= period
    /\ Len(b) >= period
    /\ \A i \in 0..(period - 1) : a[Len(a) - i] = b[Len(b) - i]

\* C23: compute_ma(candles) returns no value exactly when len(candles) <
\* period, and otherwise the arithmetic mean of the closes of the last period
\* candles; earlier candles never change the result.
C23_ComputeMaIsMeanOfLastPeriod ==
    (scall # None /\ scall[1].op = "compute_ma") =>
        LET candles == scall[1].candles
            period == scall[1].self.ma_period
            out == scall[1].out
        IN  /\ out.exc = None
            /\ out.value = None <=> Len(candles) < period
            /\ Len(candles) >= period =>
                  /\ out.value # None
                  /\ IsMeanOfLast(out.value[1], candles, period)
                  /\ \A other \in CandleLists :
                        SameTail(candles, other, period) =>
                          SameNumber(ComputeMa(scall[1].self, other)[1],
                                     out.value[1])

\* compute_ma has returned the mean of the last period candles of a list
\* that is longer than period and whose first candle closed elsewhere.
C23_Witness ==
    /\ scall # None
    /\ scall[1].op = "compute_ma"
    /\ Len(scall[1].candles) > scall[1].self.ma_period
    /\ scall[1].out.value # None
    /\ scall[1].candles[1].close * scall[1].out.value[1].den
         # scall[1].out.value[1].num

\* The classification of spec 4.2: HOLD on a list that is empty or shorter
\* than period, else the last close against the mean of the last period
\* closes.
ReferenceSignal(candles, period) ==
    IF candles = <<>> \/ Len(candles) < period THEN HOLD
    ELSE LET total == CloseSum(candles, Len(candles) - period + 1, Len(candles))
             last == candles[Len(candles)].close
         IN  CASE last * period > total -> LONG
               [] last * period < total -> SHORT
               [] last * period = total -> HOLD

\* C24: generate(candles) always returns, and returns the reference
\* classification: HOLD when the list is empty or shorter than period,
\* otherwise LONG, SHORT or HOLD as the last close is greater than, smaller
\* than or equal to the mean of the last period closes.
C24_GenerateIsReferenceClassification ==
    (scall # None /\ scall[1].op = "generate") =>
        /\ scall[1].out.exc = None
        /\ scall[1].out.value \in Signal
        /\ scall[1].out.value =
             ReferenceSignal(scall[1].candles, scall[1].self.ma_period)

\* generate has returned HOLD for a list of at least period candles whose
\* closes differ: the last close equals the mean.
C24_Witness ==
    /\ scall # None
    /\ scall[1].op = "generate"
    /\ Len(scall[1].candles) >= scall[1].self.ma_period
    /\ \E i \in 1..Len(scall[1].candles) :
          scall[1].candles[i].close # scall[1].candles[Len(scall[1].candles)].close
    /\ scall[1].out = Returns(HOLD)

C26_PeriodBelowTwoRejected ==
    [][ /\ stratOut' # stratOut =>
             LET arg == stratOut'[1].arg
                 out == stratOut'[1].out
             IN  IF arg < 2
                   THEN /\ out.exc # None
                        /\ out.exc[1].kind = "ValueError"
                        /\ strat' = strat
                   ELSE /\ out = Returns([ma_period |-> arg])
                        /\ strat' = Some([ma_period |-> arg])
        /\ strat' # strat => stratOut' # stratOut
        /\ strat' # None => strat'[1].ma_period >= 2
        /\ scall' # None => scall'[1].self.ma_period >= 2 ]_vars

\* SimpleSignalStrategy(ma_period=1) has raised and there is no strategy.
C26_Witness ==
    /\ stratOut # None
    /\ stratOut[1].arg = 1
    /\ stratOut[1].out.exc # None
    /\ strat = None

\* ------------------------------------------------------------- properties
\* of the market data service: failures

\* C21: get_klines_and_ticker fails as a whole whenever the candle fetch or
\* the quote fetch fails: it raises the error of the fetch, and it never
\* returns a pair of which one part comes from a failed fetch.
C21_JointCallFailsAsAWhole ==
    [][ /\ (KlinesAnswered /\ kop.joint /\ jpc = "waiting"
            /\ kop'.answer[1].exc # None) =>
             /\ jpc' = "raised"
             /\ jret' = Some(Raises(kop'.answer[1].exc[1]))
        /\ (TickerAnswered /\ qop.joint /\ jpc = "waiting"
            /\ qop'.answer[1].exc # None) =>
             /\ jpc' = "raised"
             /\ jret' = Some(Raises(qop'.answer[1].exc[1]))
        /\ jpc' = "raised" => (jret' # None /\ jret'[1].exc # None)
        /\ jpc' = "done" =>
             /\ kpc' = "done" /\ qpc' = "done"
             /\ kop'.answer # None => kop'.answer[1].exc = None
             /\ qop'.answer # None => qop'.answer[1].exc = None
             /\ jret' = Some(Returns(<< kret'[1].value, qret'[1].value >>)) ]_vars

\* get_klines_and_ticker has raised the error of the candle fetch though the
\* quote fetch of the same call succeeded.
C21_Witness ==
    /\ jpc = "raised"
    /\ kpc = "raised"
    /\ jret = kret
    /\ qpc = "done"
    /\ qop.joint
    /\ qop.answer # None

\* C22: a failure while persisting the fetched candles is swallowed:
\* whatever _write met, get_klines returns the fetched sequence, and the cache
\* holds that sequence with the capture time of the fetch or a later one.
C22_PersistFailureSwallowed ==
    [][ (kpc = "persist" /\ kpc' # "persist") =>
          /\ kpc' = "done"
          /\ kret' # None
          /\ kret'[1].exc = None
          /\ SameRecords(kret'[1].value, kop.answer[1].value)
          /\ SameRecords(cacheCandles', kop.answer[1].value)
          /\ lastCandleFetch' # None
          /\ lastUpdated' >= lastCandleFetch'[1].at ]_vars

\* get_klines has returned the candles it fetched, the cache holds them, and
\* the file does not: writing it failed.
C22_Witness ==
    /\ kpc = "done"
    /\ kop.calls # <<>>
    /\ HasCandles(cacheCandles)
    /\ kret = Some(Returns(cacheCandles))
    /\ disk # Some(cacheCandles)

\* ------------------------------------------------------------- properties
\* of the pipeline (SpecPipeline)

\* The candles and the price that get_klines_and_ticker returned to the
\* pipeline.
FetchedPair == jret[1].value

FetchSucceeded ==
    /\ jpc = "done" /\ kpc = "done" /\ qpc = "done"
    /\ jret # None /\ jret[1].exc = None

\* C27: one pipeline cycle submits at most one order: place_market_order is
\* called at most once in a run_pipeline call (execute is called at most once
\* and calls it at most once, no other caller calls it), and only when the
\* candle and quote fetch has returned and the signal that generate computed
\* from the returned candles is LONG or SHORT; the order is for that signal's
\* side.
C27_AtMostOneOrderPerCycle ==
    /\ ncalls <= 1
    /\ calls[2] = <<>>
    /\ Cardinality(PlaceCalls(calls[1])) <= 1
    /\ PlaceCalls(calls[1]) # {} =>
         /\ FetchSucceeded
         /\ ~pcfg[1].dry_run
         /\ sfirst # None
         /\ sfirst[1].call.candles = FetchedPair[1]
         /\ ReferenceSignal(FetchedPair[1], pcfg[1].ma_period) \in {LONG, SHORT}
         /\ sig[1] = ReferenceSignal(FetchedPair[1], pcfg[1].ma_period)
         /\ \A k \in PlaceCalls(calls[1]) :
               calls[1][k].side = ExpectedSide(sig[1])

\* A cycle that has returned after placing its one order.
C27_Witness ==
    /\ ppc = "returned"
    /\ pret = Some(Returns(0))
    /\ Cardinality(PlaceCalls(calls[1])) = 1
    /\ result[1] # None /\ result[1][1].success
    /\ sig[1] = SHORT

\* C28: when the candle or quote fetch fails, the cycle ends with no order
\* attempted: neither get_open_orders nor place_market_order is called, and
\* execute is never entered.
C28_FetchFailureAbortsCycle ==
    jpc = "raised" =>
      /\ calls[1] = <<>> /\ calls[2] = <<>>
      /\ ncalls = 0
      /\ pc[1] = "idle"
      /\ orders = <<>>
      /\ ppc \in {"fetch", "closing", "returned"}
      /\ ppc = "returned" => pret # None /\ pret[1].exc # None

\* The quote fetch failed after the candles had arrived and the cycle has
\* ended.
C28_Witness ==
    /\ ppc = "returned"
    /\ jpc = "raised"
    /\ qpc = "raised"
    /\ Len(cacheCandles) = 2
    /\ pret # None /\ pret[1].exc # None

\* The result of execute says the order was not placed.
OrderFailed == pc[1] = "done" /\ result[1] # None /\ ~result[1][1].success

\* C29: a failed OrderResult does not crash the pipeline: once execute has
\* returned a result without success, nothing but the exit code 0 is pending,
\* and run_pipeline returns 0 and raises nothing.
C29_FailedOrderIsNotACrash ==
    OrderFailed =>
      /\ ppc \in {"trade", "closing", "returned"}
      /\ ppc = "trade" => pret = None
      /\ ppc \in {"closing", "returned"} => pret = Some(Returns(0))

\* The cycle has returned after the exchange rejected the submission.
C29_Witness ==
    /\ OrderFailed
    /\ ppc = "returned"
    /\ pret = Some(Returns(0))
    /\ placeResp[1] # None /\ placeResp[1][1].exc # None

\* The cycle has returned after open orders made the guard skip.
C29_WitnessOpenOrders ==
    /\ OrderFailed
    /\ ppc = "returned"
    /\ PlaceCalls(calls[1]) = {}

PingFailed == \E k \in 1..Len(plog) : plog[k] \in {"ping raised", "ping false"}

\* C30: when ping fails, run_pipeline returns 1 instead of raising, and
\* fetches no market data and places no order.
C30_PingFailureReturnsOne ==
    PingFailed =>
      /\ cacheOps = 0 /\ jpc = "idle"
      /\ ncalls = 0 /\ calls[1] = <<>>
      /\ pret = Some(Returns(1))

\* The part of C30 that the code keeps: no fetch and no order after a failed
\* ping.
C30_PingFailureStopsCycle ==
    PingFailed =>
      /\ cacheOps = 0 /\ jpc = "idle" /\ kpc = "idle" /\ qpc = "idle"
      /\ ncalls = 0 /\ calls[1] = <<>>
      /\ ppc \in {"closing", "returned"}

\* The cycle runs in dry-run mode.
DryRun == pcfg # None /\ pcfg[1].dry_run

\* C31: in dry-run mode run_pipeline never places an order: whatever the
\* signal, execute is not entered and neither get_open_orders nor
\* place_market_order is called; and when the fetch returned candles, the
\* exit code is 0.
C31_DryRunPlacesNoOrder ==
    DryRun =>
      /\ ncalls = 0
      /\ pc[1] = "idle"
      /\ calls[1] = <<>> /\ calls[2] = <<>>
      /\ orders = <<>>
      /\ ppc # "trade"
      /\ (ppc = "returned" /\ FetchSucceeded /\ FetchedPair[1] # <<>>) =>
            pret = Some(Returns(0))

\* A dry-run cycle has returned 0 on a LONG signal.
C31_Witness ==
    /\ DryRun
    /\ ppc = "returned"
    /\ pret = Some(Returns(0))
    /\ sfirst # None /\ PipeSignal = LONG

\* ------------------------------------------------------------- properties
\* of the steps of execute

\* The get_open_orders calls an execute call has made.
OpenOrdersCalls(cs) == { k \in 1..Len(cs) : cs[k].method = "get_open_orders" }

\* The exchange reported open orders, or the query failed.
OpenOrdersBlocked(t) == openResp[t] # None /\ ~NoOpenOrdersReported(t)

\* The cooldown check of this call has been evaluated.
CooldownChecked(t) == checkedAt[t] # NoTime

\* C32: within every execute with LONG or SHORT the steps follow the state
\* machine order: get_open_orders is called exactly once and first; the
\* cooldown is checked only after it reported no open orders;
\* place_market_order is called at most once, second, and only after both
\* gates passed; and an execute that was told of open orders ends with the
\* open-orders skip without looking at the cooldown, on cooldown or not.
C32_StepsFollowStateMachine ==
    \A t \in Tasks :
      (pc[t] # "idle" /\ sig[t] \in {LONG, SHORT}) =>
        /\ OpenOrdersCalls(calls[t]) = {1}
        /\ PlaceCalls(calls[t]) \subseteq {2}
        /\ Len(calls[t]) <= 2
        /\ CooldownChecked(t) => NoOpenOrdersReported(t)
        /\ PlaceCalls(calls[t]) # {} =>
             /\ NoOpenOrdersReported(t)
             /\ CooldownChecked(t)
             /\ ~IsSkip(t, "cooldown active")
        /\ pc[t] = "place" =>
             ~(checkedAt[t] - DictGet(lastOrderTime, SideOf(sig[t]), 0)
                 < cooldownSecs)
        /\ (pc[t] = "done" /\ OpenOrdersBlocked(t)) =>
             /\ result[t] = Some(OpenOrdersSkipResult(SideOf(sig[t])))
             /\ ~CooldownChecked(t)
             /\ PlaceCalls(calls[t]) = {}

\* An execute that met open orders while its side was on cooldown.
C32_Witness ==
    /\ pc[1] = "done"
    /\ sig[1] \in {LONG, SHORT}
    /\ openResp[1] # None /\ openResp[1][1].exc = None
    /\ openResp[1][1].orders > 0
    /\ IsOnCooldown(SideOf(sig[1]))
    /\ SideOf(sig[1]) \in DOMAIN lastOrderTime
    /\ result[1] = Some(OpenOrdersSkipResult(SideOf(sig[1])))

\* The step in which the call of t learns that there are no open orders and
\* evaluates the cooldown of its side.
CooldownDecided(t) ==
    /\ pc[t] = "open_orders"
    /\ pc'[t] # "open_orders"
    /\ openResp'[t] # None
    /\ openResp'[t][1].exc = None /\ openResp'[t][1].orders = 0

\* Seconds since the last successful submission on the side of t's call.
ElapsedSinceOrder(t) == now - lastOrderTime[SideOf(sig[t])]

\* C33: a side is on cooldown exactly while now - last_order_time[side] <
\* cooldown_seconds: an execute on a side with an earlier successful
\* submission, told of no open orders, calls place_market_order when the
\* elapsed time is equal to or greater than the cooldown, and is blocked with
\* the cooldown skip at any smaller elapsed time.
C33_CooldownWindowIsHalfOpen ==
    [][ \A t \in Tasks :
          (CooldownDecided(t) /\ SideOf(sig[t]) \in DOMAIN lastOrderTime) =>
            IF ElapsedSinceOrder(t) >= cooldownSecs
              THEN /\ pc'[t] = "place"
                   /\ calls'[t] = Append(calls[t], PlaceMarketOrderCall(sig[t]))
                   /\ result'[t] = NoResult
              ELSE /\ pc'[t] = "done"
                   /\ calls'[t] = calls[t]
                   /\ result'[t] = Some(CooldownSkipResult(SideOf(sig[t]))) ]_vars

\* A second submission on a side exactly cooldown_seconds after the first.
C33_Witness ==
    /\ pc[1] = "place"
    /\ cooldownSecs > 0
    /\ SideOf(sig[1]) \in DOMAIN lastOrderTime
    /\ checkedAt[1] - lastOrderTime[SideOf(sig[1])] = cooldownSecs
    /\ Len(orders) = 1

\* A call blocked one second before the cooldown ends.
C33_WitnessBlocked ==
    /\ IsSkip(1, "cooldown active")
    /\ cooldownSecs > 1
    /\ SideOf(sig[1]) \in DOMAIN lastOrderTime
    /\ checkedAt[1] - lastOrderTime[SideOf(sig[1])] = cooldownSecs - 1

\* An accepted submission on the side of t's call has been recorded before
\* this call.
SideHasOrder(t) ==
    \E k \in 1..Len(orders) :
       k \notin OwnOrder(t) /\ orders[k].side = ExpectedSide(sig[t])

\* C34: a side with no recorded successful submission is never on cooldown,
\* at any clock value: an execute with LONG or SHORT that is told of no open
\* orders on a guard without an earlier accepted order on that side is not
\* skipped for cooldown; it submits the side's order, and when the exchange
\* accepts, it returns success with the exchange's order id.
C34_FreshSideNeverOnCooldown ==
    \A t \in Tasks :
      ( /\ pc[t] \in {"place", "done"}
        /\ sig[t] \in {LONG, SHORT}
        /\ NoOpenOrdersReported(t)
        /\ ~SideHasOrder(t) ) =>
          /\ ~IsSkip(t, "cooldown active")
          /\ PlaceCalls(calls[t]) = {2}
          /\ calls[t][2].side = ExpectedSide(sig[t])
          /\ (pc[t] = "done" /\ placeResp[t] # None
                /\ placeResp[t][1].exc = None) =>
               /\ result[t] # None /\ result[t][1].success
               /\ result[t][1].order_id
                    = Some(OrderIdOf(placeResp[t][1].value))

\* ------------------------------------------------------------- properties
\* of persistence

\* _persist_candles is awaited / has returned.
PersistStarted == kpc # "persist" /\ kpc' = "persist"
PersistEnded == kpc = "persist" /\ kpc' # "persist"

\* C35: candle persistence is invoked exactly once per successful candle
\* fetch, after the cache entry has been updated, and never on a cache hit
\* nor after a failed fetch: _persist_candles starts in the very steps in
\* which client.get_klines returned, with the cache already holding the
\* fetched candles; when it ends the call ends, so it does not run twice; and
\* the file changes in no other step.
C35_PersistOncePerSuccessfulFetch ==
    [][ /\ PersistStarted <=>
             (kpc = "fetch" /\ KlinesAnswered /\ kop'.answer[1].exc = None)
        /\ PersistStarted =>
             /\ SameRecords(cacheCandles', kop'.answer[1].value)
             /\ lastUpdated' = now
             /\ disk' = disk
        /\ PersistEnded => (kpc' = "done" /\ kop' = kop)
        /\ disk' # disk =>
             /\ PersistEnded
             /\ disk' # None
             /\ SameRecords(disk'[1], kop.answer[1].value)
        /\ (KlinesStarted /\ kpc' = "done") => disk' = disk
        /\ (KlinesAnswered /\ kop'.answer[1].exc # None) =>
             (kpc' = "raised" /\ disk' = disk) ]_vars

\* A cache hit after a fetch whose candles were written to the file.
C35_Witness ==
    /\ kpc = "done"
    /\ kop.calls = <<>>
    /\ cacheCandles # <<>>
    /\ disk = Some(cacheCandles)
    /\ lastCandleFetch # None

\* C36: when get_klines_and_ticker fails because one of its two fetches
\* failed, the call leaves the cache unchanged: the other fetch of the call
\* modifies neither the candle entry, the quote entry nor the capture time.
\* (The service of a cycle is new when the call starts, so unchanged means
\* as __init__ left it.)
C36_FailedJointCallLeavesCacheUnchanged ==
    jpc = "raised" =>
      /\ cacheCandles = <<>>
      /\ tickerPrice = None
      /\ lastUpdated = 0
      /\ lastCandleFetch = None
      /\ lastQuoteFetch = None

\* The execute call of t is waiting for the exchange.
InFlight(t) == pc[t] \in {"open_orders", "place"}

\* C37: every execute call terminates: with every exchange call eventually
\* answered, a call that is waiting for the exchange reaches its return with
\* an OrderResult, after at most one get_open_orders call and at most one
\* place_market_order call: no retry and no loop.
C37_ExecuteTerminates ==
    /\ [](\A t \in Tasks :
            /\ Cardinality(OpenOrdersCalls(calls[t])) <= 1
            /\ Cardinality(PlaceCalls(calls[t])) <= 1
            /\ Len(calls[t]) <= 2
            /\ pc[t] # "raised"
            /\ pc[t] = "done" => result[t] # None)
    /\ \A t \in Tasks :
          InFlight(t) ~> (pc[t] = "done" /\ result[t] # None)

\* The last call of the caller has returned after a rejected submission.
C37_Witness ==
    /\ ncalls = MaxCalls
    /\ pc[1] = "done"
    /\ Cardinality(PlaceCalls(calls[1])) = 1
    /\ placeResp[1] # None /\ placeResp[1][1].exc # None
    /\ result[1] # None /\ ~result[1][1].success

\* How often client.close() has been called in the cycle.
CloseCalls == Cardinality({ k \in 1..Len(plog) : plog[k] = "close" })

\* The exit paths of run_pipeline, by the event logged on leaving.
ExitEvents ==
    { "ping raised", "ping false", "fetch raised", "no candles",
      "strategy raised", "hold", "dry run", "order placed", "order failed",
      "execute raised" }

\* The exchange calls made so far by the cycle: the ping, the calls of the
\* two fetch tasks and the calls of execute.
ExchangeCalls ==
    << Cardinality({ k \in 1..Len(plog) : plog[k] = "ping" }),
       kop.calls, qop.calls, calls[1], cacheOps, ncalls >>

\* C38: run_pipeline closes the exchange client exactly once on every exit
\* path (ping failure, fetch failure, empty market data, HOLD, dry run, order
\* success, order failure, escaping exception), and makes no exchange call
\* after the close.
C38_ClientClosedOnceOnEveryExit ==
    /\ [](/\ CloseCalls <= 1
          /\ ppc \in {"closing", "returned"} <=> CloseCalls = 1
          /\ ppc = "returned" =>
               /\ pret # None
               /\ Len(plog) >= 3
               /\ plog[Len(plog)] = "closed"
               /\ plog[Len(plog) - 1] = "close"
               /\ plog[Len(plog) - 2] \in ExitEvents)
    /\ [][ CloseCalls = 1 => ExchangeCalls' = ExchangeCalls ]_vars

\* A cycle has raised the fetch error and closed the client while a fetch
\* task of the failed call was still waiting for its answer.
C38_Witness ==
    /\ ppc = "returned"
    /\ CloseCalls = 1
    /\ pret # None /\ pret[1].exc # None
    /\ jpc = "raised"
    /\ kpc = "fetch"

\* C39: the cooldown protects across pipeline cycles of one process: when a
\* cycle has had an order accepted on a side, a following cycle that produces
\* the same signal within cooldown_seconds, told of no open orders, does not
\* call place_market_order for that side.
C39_CooldownProtectsAcrossCycles ==
    ( /\ CyclesRun > 1
      /\ sig[1] \in {LONG, SHORT}
      /\ NoOpenOrdersReported(1)
      /\ checkedAt[1] # NoTime
      /\ \E k \in 1..Len(orders) :
            /\ k \notin OwnOrder(1)
            /\ orders[k].side = ExpectedSide(sig[1])
            /\ checkedAt[1] - orders[k].doneAt < cooldownSecs )
      => PlaceCalls(calls[1]) = {}

====
